---- MODULE Spec2Model ----
(***************************************************************************)
(* Model of the O2 product-catalogue ETL pipeline (src/src/pipeline.py,    *)
(* src/src/models.py, src/src/config.py).                                  *)
(*                                                                         *)
(* Python strings are sequences of one-character strings, so that          *)
(* lower(), strip(), substring tests, joins and sorting are computed       *)
(* character by character.  JSON values are tagged records [t, v]; a       *)
(* Python dict is a record over the keys the pipeline reads, with the      *)
(* marker Absent for a key that is not in the dict.                        *)
(* The clock (datetime.now, datetime.utcnow) is a logical clock: every     *)
(* record processed reads a later time than the one before.               *)
(***************************************************************************)
EXTENDS Integers, Sequences, FiniteSets, TLC

VARIABLES
    input_file,     \* what is on disk at self.input_file
    batch_size,     \* settings.batch_size
    pc,             \* position inside run()
    raw_products,   \* run(): raw_data, the list extract() returned
    batch_num,      \* transform(): outer loop variable
    pos,            \* transform(): records of the current batch already visited
    transformed,    \* transform(): the list it builds and returns
    metrics,        \* self.metrics
    output_files,   \* the files load() wrote, by name
    raised,         \* the exception that left the call and the phase it came from
    call,           \* the entry point the client called: run() or transform()
    clock,          \* the time datetime.now() reads
    previous_run    \* what transform() returned and left on an earlier pipeline

vars == <<input_file, batch_size, pc, raw_products, batch_num, pos,
          transformed, metrics, output_files, raised, call, clock, previous_run>>

(***************************************************************************)
(* Bounds of the model.                                                    *)
(***************************************************************************)
MaxRecords == 3
MaxBatchSize == 2
MaxNested == 2      \* device options, and specification groups, in a record
MaxCalls == 2       \* calls of transform() on one pipeline

(***************************************************************************)
(* Characters, in ASCII order: space, digits, upper case, "_", lower case. *)
(***************************************************************************)
Chars ==
    <<" ",
      "0","1","2","3","4","5","6","7","8","9",
      "A","B","C","D","E","F","G","H","I","J","K","L","M",
      "N","O","P","Q","R","S","T","U","V","W","X","Y","Z",
      "_",
      "a","b","c","d","e","f","g","h","i","j","k","l","m",
      "n","o","p","q","r","s","t","u","v","w","x","y","z">>

CharSet == {Chars[k] : k \in 1..Len(Chars)}

\* ord(c), as the place of c in Chars
OrdTable == [c \in CharSet |-> CHOOSE k \in 1..Len(Chars) : Chars[k] = c]

Ord(c) == OrdTable[c]

\* str.lower(), one character
LowerTable ==
    [c \in CharSet |->
        IF OrdTable[c] \in OrdTable["A"]..OrdTable["Z"]
        THEN Chars[OrdTable[c] - OrdTable["A"] + OrdTable["a"]]
        ELSE c]

LowerChar(c) == LowerTable[c]

\* str.lower()
Lower(s) == [k \in 1..Len(s) |-> LowerChar(s[k])]

\* str.strip(): leading and trailing whitespace removed
Strip(s) ==
    LET inked == {k \in 1..Len(s) : s[k] # " "}
    IN  IF inked = {} THEN <<>>
        ELSE LET first == CHOOSE k \in inked : \A j \in inked : k <= j
                 last  == CHOOSE k \in inked : \A j \in inked : j <= k
             IN  SubSeq(s, first, last)

\* Python's `sub in s` on strings
Contains(sub, s) ==
    \E k \in 0..(Len(s) - Len(sub)) : SubSeq(s, k + 1, k + Len(sub)) = sub

\* Python's s < t on strings (code point order, a proper prefix is smaller)
StrLess(s, t) ==
    \E k \in 1..(Len(t)) :
        /\ \A j \in 1..(k - 1) : j <= Len(s) /\ s[j] = t[j]
        /\ k - 1 <= Len(s)
        /\ \/ k = Len(s) + 1
           \/ k <= Len(s) /\ Ord(s[k]) < Ord(t[k])

\* sorted(list(options)) for a set of strings
RECURSIVE SortedList(_)
SortedList(S) ==
    IF S = {} THEN <<>>
    ELSE LET least == CHOOSE x \in S : \A y \in S \ {x} : StrLess(x, y)
         IN  <<least>> \o SortedList(S \ {least})

\* sep.join(parts)
RECURSIVE Join(_, _)
Join(sep, parts) ==
    IF Len(parts) = 0 THEN <<>>
    ELSE IF Len(parts) = 1 THEN parts[1]
    ELSE parts[1] \o sep \o Join(sep, Tail(parts))

\* str(n) for a natural number
RECURSIVE Digits(_)
Digits(n) ==
    IF n < 10 THEN <<Chars[Ord("0") + n]>>
    ELSE Digits(n \div 10) \o <<Chars[Ord("0") + (n % 10)]>>

(***************************************************************************)
(* JSON / Python values.                                                   *)
(***************************************************************************)
Absent == [t |-> "absent"]          \* the key is not in the dict
PyNone == [t |-> "null"]
PyStr(s) == [t |-> "str", v |-> s]
PyNum(n) == [t |-> "num", v |-> n]
PyBool(b) == [t |-> "bool", v |-> b]
PyList(l) == [t |-> "list", v |-> l]
PyDict(d) == [t |-> "dict", v |-> d]
PyTime(n) == [t |-> "datetime", v |-> n]

\* dict.get(key, default)
Get(d, key, default) == IF d[key].t = "absent" THEN default ELSE d[key]

\* key in dict
HasKey(d, key) == d[key].t # "absent"

\* Python truth value
Truthy(x) ==
    CASE x.t = "null" -> FALSE
      [] x.t = "str"  -> Len(x.v) > 0
      [] x.t = "num"  -> x.v # 0
      [] x.t = "bool" -> x.v
      [] x.t = "list" -> Len(x.v) > 0
      [] x.t = "dict" -> TRUE

\* Python's `a or b`
PyOr(a, b) == IF Truthy(a) THEN a ELSE b

\* str(x)
ToStr(x) ==
    CASE x.t = "str"  -> x.v
      [] x.t = "null" -> <<"N","o","n","e">>
      [] x.t = "bool" -> IF x.v THEN <<"T","r","u","e">> ELSE <<"F","a","l","s","e">>
      [] x.t = "num" /\ x.v >= 0 -> Digits(x.v)

\* The outcome of a call: a returned value or a raised exception
Return(x) == [raised |-> FALSE, val |-> x]
Raise(e) == [raised |-> TRUE, exc |-> e]

(***************************************************************************)
(* config.py: Settings.excluded_categories                                 *)
(***************************************************************************)
excluded_categories ==
    { <<"i","n","s","u","r","a","n","c","e">>,
      <<"a","c","c","e","s","s","o","r","i","e","s">>,
      <<"s","i","m","o">>,
      <<"s","i","m"," ","o","n","l","y">>,
      <<"p","r","o","t","e","c","t","i","o","n">>,
      <<"c","a","s","e">>,
      <<"c","h","a","r","g","e","r">>,
      <<"c","a","b","l","e">> }

(***************************************************************************)
(* pipeline.py: ETLPipeline.should_include_product                         *)
(***************************************************************************)
include_terms ==
    << <<"i","p","h","o","n","e">>,
       <<"g","a","l","a","x","y">>,
       <<"p","i","x","e","l">>,
       <<"m","o","t","o">>,
       <<"h","a","n","d","s","e","t">>,
       <<"p","h","o","n","e">>,
       <<"t","a","r","i","f","f">>,
       <<"p","a","y"," ","m","o","n","t","h","l","y">>,
       <<"5","g">>,
       <<"4","g">> >>

\* ' '.join([str(product.get('name', '')), ..., str(product.get('productType', ''))]).lower()
search_text(product) ==
    Lower(Join(<<" ">>,
        << ToStr(Get(product, "name", PyStr(<<>>))),
           ToStr(Get(product, "code", PyStr(<<>>))),
           ToStr(Get(product, "deviceState", PyStr(<<>>))),
           ToStr(Get(product, "productType", PyStr(<<>>))) >>))

has_specs(product) ==
    HasKey(product, "specificationGroups") /\ Truthy(product["specificationGroups"])

has_device_options(product) ==
    HasKey(product, "deviceOptions") /\ Truthy(product["deviceOptions"])

\* IncludeDecision with the structural hints tested before the exclusions
IncludeDecisionHintsFirst(product, text) ==
    IF has_specs(product) \/ has_device_options(product)
    THEN TRUE
    ELSE IF \E excluded \in excluded_categories : Contains(Lower(excluded), text)
    THEN FALSE
    ELSE \E k \in 1..Len(include_terms) : Contains(include_terms[k], text)

\* IncludeDecision with the include terms matched against the name alone
IncludeDecisionNameOnly(product, text) ==
    IF \E excluded \in excluded_categories : Contains(Lower(excluded), text)
    THEN FALSE
    ELSE IF has_specs(product) \/ has_device_options(product)
    THEN TRUE
    ELSE \E k \in 1..Len(include_terms) :
            Contains(include_terms[k], Lower(ToStr(Get(product, "name", PyStr(<<>>)))))

\* the decision, given the search text
IncludeDecision(product, text) ==
    IF \E excluded \in excluded_categories : Contains(Lower(excluded), text)
    THEN FALSE
    ELSE IF has_specs(product) \/ has_device_options(product)
    THEN TRUE
    ELSE \E k \in 1..Len(include_terms) : Contains(include_terms[k], text)

should_include_product(product) == IncludeDecision(product, search_text(product))

(***************************************************************************)
(* pipeline.py: the field extractors                                       *)
(***************************************************************************)
handset_terms ==
    << <<"i","p","h","o","n","e">>,
       <<"g","a","l","a","x","y">>,
       <<"p","i","x","e","l">>,
       <<"m","o","t","o">> >>

handset == <<"h","a","n","d","s","e","t">>
pay_monthly == <<"p","a","y","_","m","o","n","t","h","l","y">>
device == <<"d","e","v","i","c","e">>

\* x.lower() where x came out of a dict: only a str has the method
LowerOf(x) == IF x.t = "str" THEN Return(Lower(x.v)) ELSE Raise("AttributeError")

\* CategoryOf with the tariff rule tested before the handset rule
CategoryOfTariffFirst(name, code) ==
    IF Contains(<<"t","a","r","i","f","f">>, name) \/ Contains(<<"p","l","a","n">>, name)
    THEN pay_monthly
    ELSE IF \E k \in 1..Len(handset_terms) :
                Contains(handset_terms[k], name) \/ Contains(handset_terms[k], code)
    THEN handset
    ELSE device

\* the if/elif/return of _determine_category, given the lowercased name and code
CategoryOf(name, code) ==
    IF \E k \in 1..Len(handset_terms) :
            Contains(handset_terms[k], name) \/ Contains(handset_terms[k], code)
    THEN handset
    ELSE IF Contains(<<"t","a","r","i","f","f">>, name) \/ Contains(<<"p","l","a","n">>, name)
    THEN pay_monthly
    ELSE device

_determine_category(product) ==
    LET name == LowerOf(Get(product, "name", PyStr(<<>>)))
        code == LowerOf(Get(product, "code", PyStr(<<>>)))
    IN  IF name.raised THEN name
        ELSE IF code.raised THEN code
        ELSE Return(CategoryOf(name.val, code.val))

\* `for x in value`: a list is iterated, None is not iterable
Iterate(x) ==
    CASE x.t = "list" -> Return(x.v)
      [] x.t = "null" -> Raise("TypeError")

\* value.get(key, default) where value came out of a list or a dict
GetOf(x, key, default) ==
    IF x.t = "dict" THEN Return(Get(x.v, key, default)) ELSE Raise("AttributeError")

\* the inner loop of _extract_storage_options over one capacityValues list
RECURSIVE StorageOfCapacities(_, _)
StorageOfCapacities(caps, options) ==
    IF caps = <<>> THEN Return(options)
    ELSE LET name == GetOf(Head(caps), "name", PyNone)
         IN  IF name.raised THEN name
             ELSE StorageOfCapacities(Tail(caps),
                     IF Truthy(name.val) THEN options \cup {name.val} ELSE options)

\* the outer loop of _extract_storage_options
RECURSIVE StorageOfOptions(_, _)
StorageOfOptions(opts, options) ==
    IF opts = <<>> THEN Return(options)
    ELSE LET caps == GetOf(Head(opts), "capacityValues", PyList(<<>>))
         IN  IF caps.raised THEN caps
             ELSE LET it == Iterate(caps.val)
                  IN  IF it.raised THEN it
                      ELSE LET inner == StorageOfCapacities(it.val, options)
                           IN  IF inner.raised THEN inner
                               ELSE StorageOfOptions(Tail(opts), inner.val)

\* SortedOptions sorting in descending order
DescendingOptions(options) ==
    LET labels == SortedList({x.v : x \in options})
    IN  [k \in 1..Len(labels) |-> PyStr(labels[Len(labels) + 1 - k])]

\* sorted(list(options)); the labels are str values
SortedOptions(options) ==
    LET labels == SortedList({x.v : x \in options})
    IN  [k \in 1..Len(labels) |-> PyStr(labels[k])]

_extract_storage_options(product) ==
    LET it == Iterate(Get(product, "deviceOptions", PyList(<<>>)))
    IN  IF it.raised THEN it
        ELSE LET r == StorageOfOptions(it.val, {})
             IN  IF r.raised THEN r ELSE Return(SortedOptions(r.val))

\* the loop of _extract_color_options
RECURSIVE ColorOfOptions(_, _)
ColorOfOptions(opts, options) ==
    IF opts = <<>> THEN Return(options)
    ELSE LET color == GetOf(Head(opts), "color", PyDict([name |-> Absent]))
         IN  IF color.raised THEN color
             ELSE LET name == GetOf(color.val, "name", PyNone)
                  IN  IF name.raised THEN name
                      ELSE ColorOfOptions(Tail(opts),
                              IF Truthy(name.val) THEN options \cup {name.val} ELSE options)

_extract_color_options(product) ==
    LET it == Iterate(Get(product, "deviceOptions", PyList(<<>>)))
    IN  IF it.raised THEN it
        ELSE LET r == ColorOfOptions(it.val, {})
             IN  IF r.raised THEN r ELSE Return(SortedOptions(r.val))

\* NetworkOfSpecs going on to the last specification that matches
RECURSIVE NetworkOfSpecsLast(_)
NetworkOfSpecsLast(specs) ==
    IF specs = <<>> THEN Return([found |-> FALSE])
    ELSE LET name == GetOf(Head(specs), "name", PyStr(<<>>))
         IN  IF name.raised THEN name
             ELSE LET low  == LowerOf(name.val)
                      rest == NetworkOfSpecsLast(Tail(specs))
                  IN  IF low.raised THEN low
                      ELSE IF rest.raised \/ rest.val.found THEN rest
                      ELSE IF Contains(<<"n","e","t","w","o","r","k">>, low.val)
                      THEN Return([found |-> TRUE,
                                   val |-> Get(Head(specs).v, "value", PyNone)])
                      ELSE rest

\* the inner loop of _extract_network_technology: [found, val] or an exception
RECURSIVE NetworkOfSpecs(_)
NetworkOfSpecs(specs) ==
    IF specs = <<>> THEN Return([found |-> FALSE])
    ELSE LET name == GetOf(Head(specs), "name", PyStr(<<>>))
         IN  IF name.raised THEN name
             ELSE LET low == LowerOf(name.val)
                  IN  IF low.raised THEN low
                      ELSE IF Contains(<<"n","e","t","w","o","r","k">>, low.val)
                      THEN Return([found |-> TRUE,
                                   val |-> Get(Head(specs).v, "value", PyNone)])
                      ELSE NetworkOfSpecs(Tail(specs))

\* the outer loop of _extract_network_technology
RECURSIVE NetworkOfGroups(_)
NetworkOfGroups(groups) ==
    IF groups = <<>> THEN Return(PyNone)
    ELSE LET specs == GetOf(Head(groups), "specifications", PyList(<<>>))
         IN  IF specs.raised THEN specs
             ELSE LET it == Iterate(specs.val)
                  IN  IF it.raised THEN it
                      ELSE LET inner == NetworkOfSpecs(it.val)
                           IN  IF inner.raised THEN inner
                               ELSE IF inner.val.found THEN Return(inner.val.val)
                               ELSE NetworkOfGroups(Tail(groups))

_extract_network_technology(product) ==
    LET it == Iterate(Get(product, "specificationGroups", PyList(<<>>)))
    IN  IF it.raised THEN it ELSE NetworkOfGroups(it.val)

(***************************************************************************)
(* models.py: Product.  A validated field is Ok(value) or Err(error type); *)
(* pydantic validates every field and reports the errors of all of them,   *)
(* in the order the fields are declared.                                   *)
(***************************************************************************)
Ok(x) == [ok |-> TRUE, val |-> x]
Err(type) == [ok |-> FALSE, err |-> type]

\* a field declared `str`
StrField(x) == IF x.t = "str" THEN Ok(x) ELSE Err("string_type")

\* a field declared `Optional[str]`
OptStrField(x) == IF x.t \in {"str", "null"} THEN Ok(x) ELSE Err("string_type")

\* a field declared `bool`
BoolField(x) ==
    CASE x.t = "bool" -> Ok(x)
      [] x.t = "null" -> Err("bool_type")

\* RatingField with exclusive bounds (gt, lt)
RatingFieldExclusive(x) ==
    CASE x.t = "null" -> Ok(x)
      [] x.t = "num" -> IF x.v <= 0 THEN Err("greater_than")
                        ELSE IF x.v >= 5 THEN Err("less_than")
                        ELSE Ok(x)

\* average_rating: Optional[float] = Field(None, ge=0, le=5)
RatingField(x) ==
    CASE x.t = "null" -> Ok(x)
      [] x.t = "num" -> IF x.v < 0 THEN Err("greater_than_equal")
                        ELSE IF x.v > 5 THEN Err("less_than_equal")
                        ELSE Ok(x)

\* total_reviews: Optional[int] = Field(None, ge=0)
ReviewsField(x) ==
    CASE x.t = "null" -> Ok(x)
      [] x.t = "num" -> IF x.v < 0 THEN Err("greater_than_equal") ELSE Ok(x)

\* clean_text returning the value as it came, untrimmed
clean_text_unstripped(x) ==
    IF ~Truthy(x) \/ ~Truthy(PyStr(Strip(x.v)))
    THEN Err("value_error")
    ELSE Ok(x)

\* Product.clean_text, run on a brand or name that is a str
clean_text(x) ==
    IF ~Truthy(x) \/ ~Truthy(PyStr(Strip(x.v)))
    THEN Err("value_error")
    ELSE Ok(PyStr(Strip(x.v)))

\* a field declared `str` and validated by clean_text
TextField(x) == IF StrField(x).ok THEN clean_text(x) ELSE StrField(x)

\* the `values` dict a validator sees: the fields validated so far, without
\* those that failed
ValueOf(field) == IF field.ok THEN field.val ELSE Absent

\* Product.ensure_sku
ensure_sku(x, values) ==
    IF ~Truthy(x)
    THEN IF HasKey(values, "code") /\ Truthy(values["code"])
         THEN values["code"]
         ELSE PyStr(ToStr(Get(values, "brand", PyStr(<<"N","A">>)))
                    \o <<"_">>
                    \o ToStr(Get(values, "id", PyStr(<<"N","A">>))))
    ELSE x

\* sku_code: Optional[str], validated by ensure_sku (always=True)
SkuField(x, values) ==
    IF OptStrField(x).ok THEN Ok(ensure_sku(x, values)) ELSE OptStrField(x)

ProductFieldOrder ==
    <<"id", "brand", "name", "code", "sku_code", "device_state", "in_stock",
      "average_rating", "total_reviews", "image_url", "product_url">>

\* ErrorsOf stopping at the first field that failed
ErrorsOfFirst(fields, order) ==
    LET failed == SelectSeq(order, LAMBDA f : ~fields[f].ok)
    IN  <<[loc |-> failed[1], type |-> fields[failed[1]].err]>>

\* e.errors(): one entry per field that failed, in declaration order
ErrorsOf(fields, order) ==
    LET failed == SelectSeq(order, LAMBDA f : ~fields[f].ok)
    IN  [k \in 1..Len(failed) |-> [loc |-> failed[k], type |-> fields[failed[k]].err]]

\* Product(**kw): the validated model, or ValidationError with every error
Product(kw) ==
    LET id     == StrField(kw.id)
        brand  == TextField(kw.brand)
        name   == TextField(kw.name)
        code   == OptStrField(kw.code)
        values == [id |-> ValueOf(id), brand |-> ValueOf(brand),
                   name |-> ValueOf(name), code |-> ValueOf(code)]
        fields == [id |-> id, brand |-> brand, name |-> name, code |-> code,
                   sku_code       |-> SkuField(kw.sku_code, values),
                   device_state   |-> OptStrField(kw.device_state),
                   in_stock       |-> BoolField(kw.in_stock),
                   average_rating |-> RatingField(kw.average_rating),
                   total_reviews  |-> ReviewsField(kw.total_reviews),
                   image_url      |-> OptStrField(kw.image_url),
                   product_url    |-> OptStrField(kw.product_url)]
    IN  IF \E f \in DOMAIN fields : ~fields[f].ok
        THEN Raise([type |-> "ValidationError",
                    errors |-> ErrorsOf(fields, ProductFieldOrder)])
        ELSE Return([f \in DOMAIN fields |-> fields[f].val])

(***************************************************************************)
(* models.py: TransformedProduct                                           *)
(***************************************************************************)
\* a field declared `Optional[float]` or `Optional[int]`, no range
OptNumField(x) ==
    CASE x.t = "null" -> Ok(x)
      [] x.t = "num" -> Ok(x)

\* a field declared `List[str]`
StrListField(x) ==
    IF x.t = "list" /\ \A k \in 1..Len(x.v) : x.v[k].t = "str"
    THEN Ok(x) ELSE Err("string_type")

\* a field declared `datetime`
DatetimeField(x) == IF x.t = "datetime" THEN Ok(x) ELSE Err("datetime_type")

TransformedFieldOrder ==
    <<"product_id", "brand", "name", "category", "sku", "in_stock", "device_state",
      "rating", "review_count", "network_technology", "storage_options",
      "color_options", "processed_timestamp">>

TransformedProduct(kw) ==
    LET fields == [product_id   |-> StrField(kw.product_id),
                   brand        |-> StrField(kw.brand),
                   name         |-> StrField(kw.name),
                   category     |-> StrField(kw.category),
                   sku          |-> StrField(kw.sku),
                   in_stock     |-> BoolField(kw.in_stock),
                   device_state |-> OptStrField(kw.device_state),
                   rating       |-> OptNumField(kw.rating),
                   review_count |-> OptNumField(kw.review_count),
                   network_technology |-> OptStrField(kw.network_technology),
                   storage_options    |-> StrListField(kw.storage_options),
                   color_options      |-> StrListField(kw.color_options),
                   processed_timestamp |-> DatetimeField(kw.processed_timestamp)]
    IN  IF \E f \in DOMAIN fields : ~fields[f].ok
        THEN Raise([type |-> "ValidationError",
                    errors |-> ErrorsOf(fields, TransformedFieldOrder)])
        ELSE Return([f \in DOMAIN fields |-> fields[f].val])

(***************************************************************************)
(* pipeline.py: ETLPipeline.__init__, the metrics of a new pipeline        *)
(***************************************************************************)
InitialMetrics ==
    [total_records     |-> 0,
     valid_records     |-> 0,
     invalid_records   |-> 0,
     filtered_records  |-> 0,
     validation_errors |-> <<>>,
     categories_found  |-> {},
     brands_processed  |-> {}]

(***************************************************************************)
(* pipeline.py: ETLPipeline.transform, the body of the loop for one record *)
(***************************************************************************)
\* set.add(x) needs a hashable x
Hashable(x) == x.t \notin {"list", "dict"}

\* ProductArgs with `code or skuCode` for sku_code
ProductArgsCodeFirst(raw_product, brand) ==
    [id             |-> Get(raw_product, "id", PyNone),
     brand          |-> brand,
     name           |-> Get(raw_product, "name", PyNone),
     code           |-> Get(raw_product, "code", PyNone),
     sku_code       |-> PyOr(Get(raw_product, "code", PyNone),
                             Get(raw_product, "skuCode", PyNone)),
     device_state   |-> Get(raw_product, "deviceState", PyNone),
     in_stock       |-> Get(raw_product, "inStock", PyBool(FALSE)),
     average_rating |-> Get(raw_product, "averageRating", PyNone),
     total_reviews  |-> Get(raw_product, "totalReviews", PyNone),
     image_url      |-> Get(raw_product, "image", PyNone),
     product_url    |-> Get(raw_product, "url", PyNone)]

\* the keyword arguments of Product(...)
ProductArgs(raw_product, brand) ==
    [id             |-> Get(raw_product, "id", PyNone),
     brand          |-> brand,
     name           |-> Get(raw_product, "name", PyNone),
     code           |-> Get(raw_product, "code", PyNone),
     sku_code       |-> PyOr(Get(raw_product, "skuCode", PyNone),
                             Get(raw_product, "code", PyNone)),
     device_state   |-> Get(raw_product, "deviceState", PyNone),
     in_stock       |-> Get(raw_product, "inStock", PyBool(FALSE)),
     average_rating |-> Get(raw_product, "averageRating", PyNone),
     total_reviews  |-> Get(raw_product, "totalReviews", PyNone),
     image_url      |-> Get(raw_product, "image", PyNone),
     product_url    |-> Get(raw_product, "url", PyNone)]

\* the keyword arguments of TransformedProduct(...)
TransformedArgs(product, category, network, storage, color) ==
    [product_id         |-> product.id,
     brand              |-> product.brand,
     name               |-> product.name,
     category           |-> PyStr(category),
     sku                |-> product.sku_code,
     in_stock           |-> product.in_stock,
     device_state       |-> product.device_state,
     rating             |-> product.average_rating,
     review_count       |-> product.total_reviews,
     network_technology |-> network,
     storage_options    |-> PyList(storage),
     color_options      |-> PyList(color),
     processed_timestamp |-> PyTime(clock)]

\* `except ValidationError as e`
OnValidationError(m, out, raw_product, e) ==
    [metrics |->
        [m EXCEPT !.invalid_records = @ + 1,
                  !.validation_errors = Append(@,
                      [product_id   |-> Get(raw_product, "id", PyStr(<<"u","n","k","n","o","w","n">>)),
                       product_name |-> Get(raw_product, "name", PyStr(<<"u","n","k","n","o","w","n">>)),
                       errors       |-> e.errors,
                       timestamp    |-> PyTime(clock)])],
     transformed |-> out]

\* `except Exception as e`
OnException(m, out) ==
    [metrics |-> [m EXCEPT !.invalid_records = @ + 1], transformed |-> out]

\* AppendTransformed putting the new record in front
PrependTransformed(out, transformed_product) == <<transformed_product>> \o out

\* transformed.append(transformed_product)
AppendTransformed(out, transformed_product) == Append(out, transformed_product)

\* from the construction of TransformedProduct to the end of the try block
BuildTransformed(m, out, raw_product, product, category) ==
    LET network == _extract_network_technology(raw_product)
        storage == _extract_storage_options(raw_product)
        color   == _extract_color_options(raw_product)
    IN  IF network.raised \/ storage.raised \/ color.raised
        THEN OnException(m, out)
        ELSE LET tp == TransformedProduct(
                           TransformedArgs(product, category, network.val,
                                           storage.val, color.val))
             IN  IF tp.raised
                 THEN OnValidationError(m, out, raw_product, tp.exc)
                 ELSE [metrics |-> [m EXCEPT !.valid_records = @ + 1],
                       transformed |-> AppendTransformed(out, tp.val)]

\* from `brand = raw_product.get('brand', 'Unknown')` on, for a record the
\* filter let through
ValidateAndBuild(m, out, raw_product) ==
    LET brand == Get(raw_product, "brand", PyStr(<<"U","n","k","n","o","w","n">>))
    IN  IF ~Hashable(brand)
        THEN OnException(m, out)
        ELSE LET m1 == [m EXCEPT !.brands_processed = @ \cup {brand}]
                 product == Product(ProductArgs(raw_product, brand))
             IN  IF product.raised
                 THEN OnValidationError(m1, out, raw_product, product.exc)
                 ELSE LET category == _determine_category(raw_product)
                      IN  IF category.raised
                          THEN OnException(m1, out)
                          ELSE BuildTransformed(
                                   [m1 EXCEPT !.categories_found = @ \cup {category.val}],
                                   out, raw_product, product.val, category.val)

\* ProcessRecord validating before it filters
ProcessRecordValidateFirst(m, out, raw_product) ==
    IF Product(ProductArgs(raw_product,
                           Get(raw_product, "brand", PyStr(<<"U","n","k","n","o","w","n">>)))).raised
    THEN ValidateAndBuild(m, out, raw_product)
    ELSE IF ~should_include_product(raw_product)
    THEN [metrics |-> [m EXCEPT !.filtered_records = @ + 1], transformed |-> out]
    ELSE ValidateAndBuild(m, out, raw_product)

\* one iteration of `for raw_product in batch`: the new metrics and the new
\* `transformed` list
ProcessRecord(m, out, raw_product) ==
    IF ~should_include_product(raw_product)
    THEN [metrics |-> [m EXCEPT !.filtered_records = @ + 1], transformed |-> out]
    ELSE ValidateAndBuild(m, out, raw_product)

(***************************************************************************)
(* pipeline.py: ETLPipeline.load and the writers it calls                  *)
(***************************************************************************)
NotWritten == [t |-> "absent"]

NoFiles ==
    [products_json      |-> NotWritten,
     products_csv       |-> NotWritten,
     validation_report  |-> NotWritten,
     validation_errors  |-> NotWritten]

\* the column order of products.csv
fieldnames ==
    <<"product_id", "brand", "name", "category", "sku", "in_stock", "device_state",
      "rating", "review_count", "network_technology", "storage_options",
      "color_options", "processed_timestamp">>

\* the header line load() writes itself when there are no products
empty_csv_header ==
    <<"product_id", "brand", "name", "category", "sku", "in_stock", "device_state",
      "rating", "review_count", "network_technology", "storage_options",
      "color_options", "processed_timestamp">>

\* '|'.join(str(x) for x in options if x), or '' for an empty list
JoinOptions(options) ==
    IF Truthy(options)
    THEN LET kept == SelectSeq(options.v, Truthy)
         IN  PyStr(Join(<<"|">>, [k \in 1..Len(kept) |-> ToStr(kept[k])]))
    ELSE PyStr(<<>>)

\* CsvRow blanking every falsy value instead of every None
CsvRowBlankFalsy(product) ==
    LET row == [product EXCEPT
                   !.storage_options = JoinOptions(product.storage_options),
                   !.color_options   = JoinOptions(product.color_options),
                   !.in_stock        = IF Truthy(product.in_stock)
                                       THEN PyStr(<<"Y","e","s">>) ELSE PyStr(<<"N","o">>)]
    IN  [key \in DOMAIN row |->
            IF row[key].t \in {"null", "str", "num"} /\ ~Truthy(row[key])
            THEN PyStr(<<>>) ELSE row[key]]

\* one row of _save_as_csv, as the dict handed to the csv writer
CsvRow(product) ==
    LET row == [product EXCEPT
                   !.storage_options = JoinOptions(product.storage_options),
                   !.color_options   = JoinOptions(product.color_options),
                   !.in_stock        = IF Truthy(product.in_stock)
                                       THEN PyStr(<<"Y","e","s">>) ELSE PyStr(<<"N","o">>)]
    IN  [key \in DOMAIN row |-> IF row[key].t = "null" THEN PyStr(<<>>) ELSE row[key]]

\* success_rate without the test for total_records == 0
success_rate_unguarded(total_records, valid_records) ==
    [num |-> valid_records * 100, den |-> total_records]

\* ValidationReport.success_rate, as the fraction num/den
success_rate(total_records, valid_records) ==
    IF total_records = 0
    THEN [num |-> 0, den |-> 1]
    ELSE [num |-> valid_records * 100, den |-> total_records]

\* _save_validation_report: the report written, without the times
ReportData(m) ==
    [total_records     |-> m.total_records,
     valid_records     |-> m.valid_records,
     invalid_records   |-> m.invalid_records,
     filtered_records  |-> m.filtered_records,
     validation_errors |-> m.validation_errors,
     brands_processed  |-> m.brands_processed,
     categories_found  |-> m.categories_found,
     success_rate      |-> success_rate(m.total_records, m.valid_records)]

\* load writing nothing when there are no products
load_skip_empty(files, products, m) ==
    IF products = <<>>
    THEN files
    ELSE [files EXCEPT
            !.products_json     = PyList(products),
            !.products_csv      = [header |-> fieldnames,
                                   rows |-> [k \in 1..Len(products) |-> CsvRow(products[k])]],
            !.validation_report = ReportData(m),
            !.validation_errors = IF m.validation_errors # <<>>
                                  THEN PyList(m.validation_errors)
                                  ELSE @]

\* load(products): the files in the output directory afterwards
load(files, products, m) ==
    IF products = <<>>
    THEN [files EXCEPT
            !.products_json     = PyList(<<>>),
            !.products_csv      = [header |-> empty_csv_header, rows |-> <<>>],
            !.validation_report = ReportData(m)]
    ELSE [files EXCEPT
            !.products_json     = PyList(products),
            !.products_csv      = [header |-> fieldnames,
                                   rows |-> [k \in 1..Len(products) |-> CsvRow(products[k])]],
            !.validation_report = ReportData(m),
            !.validation_errors = IF m.validation_errors # <<>>
                                  THEN PyList(m.validation_errors)
                                  ELSE @]

(***************************************************************************)
(* The inputs of the model: raw records as the input document holds them.  *)
(***************************************************************************)
EmptyProduct ==
    [id |-> Absent, brand |-> Absent, name |-> Absent, code |-> Absent,
     skuCode |-> Absent, deviceState |-> Absent, productType |-> Absent,
     inStock |-> Absent, averageRating |-> Absent, totalReviews |-> Absent,
     image |-> Absent, url |-> Absent,
     specificationGroups |-> Absent, deviceOptions |-> Absent]

Spec_(name, value) == PyDict([name |-> name, value |-> value])
Group(specs) == PyDict([specifications |-> specs])
Capacity(name) == PyDict([name |-> name])
Option(color, caps) == PyDict([color |-> color, capacityValues |-> caps])

NetworkGroups ==
    PyList(<< Group(PyList(<< Spec_(PyStr(<<"B","a","t","t","e","r","y">>), PyStr(<<"5","0","0","0","m","A","h">>)),
                              Spec_(PyStr(<<"N","e","t","w","o","r","k"," ","T","e","c","h","n","o","l","o","g","y">>), PyStr(<<"5","G">>)) >>)) >>)

BlackOptions ==
    PyList(<< Option(PyDict([name |-> PyStr(<<"B","l","a","c","k">>)]),
                     PyList(<< Capacity(PyStr(<<"2","5","6","G","B">>)), Capacity(PyStr(<<"1","2","8","G","B">>)),
                               Capacity(PyStr(<<"2","5","6","G","B">>)) >>)) >>)

\* test_pipeline.py, sample_data[0]
IPhone ==
    [EmptyProduct EXCEPT
        !.id = PyStr(<<"0","0","1">>), !.brand = PyStr(<<"A","p","p","l","e">>), !.name = PyStr(<<"i","P","h","o","n","e"," ","1","5"," ","P","r","o">>),
        !.deviceState = PyStr(<<"N","e","w">>), !.inStock = PyBool(TRUE),
        !.averageRating = PyNum(4),
        !.specificationGroups = NetworkGroups, !.deviceOptions = BlackOptions]

\* test_pipeline.py, sample_data[1]
Insurance ==
    [EmptyProduct EXCEPT
        !.id = PyStr(<<"0","0","2">>), !.brand = PyStr(<<"O","2">>), !.name = PyStr(<<"D","e","v","i","c","e"," ","I","n","s","u","r","a","n","c","e">>),
        !.inStock = PyBool(TRUE)]

\* test_pipeline.py, sample_data[2]
Galaxy ==
    [EmptyProduct EXCEPT
        !.id = PyStr(<<"0","0","3">>), !.brand = PyStr(<<"S","a","m","s","u","n","g">>), !.name = PyStr(<<"G","a","l","a","x","y"," ","S","2","4">>),
        !.deviceState = PyStr(<<"N","e","w">>), !.inStock = PyBool(FALSE),
        !.specificationGroups = PyList(<<>>)]

\* test_integration.py, test_pipeline_with_invalid_data: {"brand": "Samsung"}
BrandOnly == [EmptyProduct EXCEPT !.brand = PyStr(<<"S","a","m","s","u","n","g">>)]

\* test_integration.py, "Phone Case Premium", here with device options
PhoneCase ==
    [EmptyProduct EXCEPT
        !.id = PyStr(<<"0","0","4">>), !.brand = PyStr(<<"G","e","n","e","r","i","c">>), !.name = PyStr(<<"P","h","o","n","e"," ","C","a","s","e"," ","P","r","e","m","i","u","m">>),
        !.code = PyStr(<<"A","C","C","E","S","S","O","R","Y">>), !.deviceOptions = BlackOptions]

\* a tariff without a brand and with a review count of 0
Tariff ==
    [EmptyProduct EXCEPT
        !.id = PyStr(<<"0","0","5">>), !.name = PyStr(<<" ","M","o","n","t","h","l","y"," ","T","a","r","i","f","f"," ">>), !.code = PyStr(<<"T","A","R","1">>),
        !.skuCode = PyStr(<<"S","K","U","5">>), !.totalReviews = PyNum(0)]

\* no id, no name, rating out of range; the code lets it through the filter
ManyErrors ==
    [EmptyProduct EXCEPT
        !.brand = PyStr(<<"G","o","o","g","l","e">>), !.code = PyStr(<<"P","I","X","E","L","8">>), !.averageRating = PyNum(6)]

\* "code": null
NullCode ==
    [EmptyProduct EXCEPT
        !.id = PyStr(<<"0","0","6">>), !.brand = PyStr(<<"M","o","t","o","r","o","l","a">>), !.name = PyStr(<<"M","o","t","o"," ","G">>),
        !.code = PyNone]

\* "id": ""
EmptyId ==
    [EmptyProduct EXCEPT
        !.id = PyStr(<<>>), !.brand = PyStr(<<"G","o","o","g","l","e">>), !.name = PyStr(<<"P","i","x","e","l"," ","8">>),
        !.code = PyStr(<<"P","I","X","8">>)]

\* "brand": null
NullBrand ==
    [EmptyProduct EXCEPT
        !.id = PyStr(<<"0","0","7">>), !.brand = PyNone, !.name = PyStr(<<"H","a","n","d","s","e","t"," ","X">>)]

\* a device option whose colour is null
NullColor ==
    [EmptyProduct EXCEPT
        !.id = PyStr(<<"0","0","8">>), !.brand = PyStr(<<"N","o","k","i","a">>), !.name = PyStr(<<"R","o","u","t","e","r"," ","4","G">>),
        !.deviceOptions = PyList(<< Option(PyNone, PyList(<<>>)) >>)]

\* a specification whose value is a number
NumericNetwork ==
    [EmptyProduct EXCEPT
        !.id = PyStr(<<"0","0","9">>), !.brand = PyStr(<<"S","o","n","y">>), !.name = PyStr(<<"X","p","e","r","i","a"," ","P","l","a","n">>),
        !.specificationGroups =
            PyList(<< Group(PyList(<< Spec_(PyStr(<<"N","e","t","w","o","r","k">>), PyNum(5)) >>)) >>)]

\* the records of the multi-record documents
SampleProducts == { IPhone, BrandOnly, Tariff, ManyErrors, NullCode, NullBrand }

\* records that vary what the inclusion filter and the category rule read
FilterProducts ==
    { [EmptyProduct EXCEPT
          !.id = PyStr(<<"0","1","0">>), !.brand = PyStr(<<"A","p","p","l","e">>),
          !.name = name, !.code = code, !.deviceState = state, !.productType = type,
          !.specificationGroups = nested[1], !.deviceOptions = nested[2]] :
        name \in { Absent, PyNone, PyStr(<<"i","P","h","o","n","e"," ","1","5"," ","P","r","o">>), PyStr(<<"D","e","v","i","c","e"," ","I","n","s","u","r","a","n","c","e">>), PyStr(<<"S","i","m">>),
                   PyStr(<<"P","a","y">>), PyStr(<<"R","o","u","t","e","r"," ","4","G">>), PyStr(<<"M","o","n","t","h","l","y"," ","T","a","r","i","f","f">>), PyStr(<<"G","a","l","a","x","y"," ","P","l","a","n">>),
                   PyStr(<<"U","S","B"," ","C","a","b","l","e">>), PyStr(<<"H","a","n","d","s","e","t"," ","X">>), PyStr(<<"S","I","M","O"," ","D","e","a","l">>) },
        code \in { Absent, PyNone, PyStr(<<"O","n","l","y">>), PyStr(<<"M","o","n","t","h","l","y">>), PyStr(<<"A","C","C","E","S","S","O","R","I","E","S">>), PyStr(<<"M","O","T","O","5","G">>),
                   PyStr(<<"P","I","X","E","L","8">>) },
        state \in { Absent, PyStr(<<"N","e","w">>), PyStr(<<"P","r","o","t","e","c","t","i","o","n">>) },
        type \in { Absent, PyStr(<<"P","h","o","n","e">>), PyStr(<<"C","h","a","r","g","e","r">>), PyStr(<<"C","a","s","e">>) },
        nested \in { <<Absent, Absent>>, <<PyList(<<>>), Absent>>,
                     <<NetworkGroups, Absent>>, <<PyNone, Absent>>,
                     <<Absent, PyList(<<>>)>>, <<Absent, BlackOptions>> } }

\* records that vary what Product validates; the specification groups let
\* them through the filter
ValidationProducts ==
    { [EmptyProduct EXCEPT
          !.specificationGroups = NetworkGroups,
          !.id = id, !.brand = brand, !.name = name,
          !.averageRating = rating, !.totalReviews = reviews] :
        id \in { Absent, PyNone, PyStr(<<>>), PyStr(<<"0","1","1">>), PyNum(7) },
        brand \in { Absent, PyNone, PyStr(<<>>), PyStr(<<" "," ">>), PyStr(<<" ","A","p","p","l","e"," ">>) },
        name \in { Absent, PyNone, PyStr(<<>>), PyStr(<<" "," ">>), PyStr(<<" ","i","P","h","o","n","e"," ","1","5"," ">>) },
        rating \in { Absent, PyNone, PyNum(0 - 1), PyNum(0), PyNum(5), PyNum(6) },
        reviews \in { Absent, PyNone, PyNum(0 - 1), PyNum(0), PyNum(12) } }

\* records that vary what the SKU is resolved from
SkuProducts ==
    { [EmptyProduct EXCEPT
          !.name = PyStr(<<"P","i","x","e","l"," ","8">>),
          !.id = id, !.brand = brand, !.skuCode = sku, !.code = code] :
        id \in { PyStr(<<>>), PyStr(<<"0","1","2">>) },
        brand \in { Absent, PyStr(<<" ","G","o","o","g","l","e"," ">>) },
        sku \in { Absent, PyNone, PyStr(<<>>), PyStr(<<"S","K","U","8">>), PyNum(8) },
        code \in { Absent, PyNone, PyStr(<<>>), PyStr(<<"P","I","X","8">>), PyNum(8) } }

\* the lists of at most n elements of S
SeqsUpTo(S, n) == UNION { [1..k -> S] : k \in 0..n }

\* the device options of a record: the colour and the capacities are absent,
\* empty, or named, and names repeat within an option and across options
Black == PyDict([name |-> PyStr(<<"B","l","a","c","k">>)])
Blue == PyDict([name |-> PyStr(<<"B","l","u","e">>)])
Unsorted256 ==
    PyList(<< Capacity(PyStr(<<"2","5","6","G","B">>)), Capacity(PyStr(<<"1","2","8","G","B">>)),
              Capacity(PyStr(<<"2","5","6","G","B">>)) >>)
Unnamed1TB == PyList(<< Capacity(PyStr(<<>>)), Capacity(PyStr(<<"1","T","B">>)) >>)

DeviceOptions ==
    { Option(Absent, Absent), Option(PyDict([name |-> PyStr(<<>>)]), PyList(<<>>)),
      Option(Black, Unsorted256), Option(Blue, Unnamed1TB), Option(Black, Unnamed1TB) }

\* records with up to MaxNested device options; the name lets them through
\* the filter
OptionProducts ==
    { [EmptyProduct EXCEPT
          !.id = PyStr(<<"0","1","3">>), !.brand = PyStr(<<"N","o","k","i","a">>),
          !.name = PyStr(<<"H","a","n","d","s","e","t"," ","X">>), !.deviceOptions = PyList(options)] :
        options \in SeqsUpTo(DeviceOptions, MaxNested) }

Battery == Spec_(PyStr(<<"B","a","t","t","e","r","y">>), PyStr(<<"5","0","0","0","m","A","h">>))
NetworkType == Spec_(PyStr(<<"N","E","T","W","O","R","K"," ","T","y","p","e">>), PyStr(<<"4","G">>))
NetworkTechnology ==
    Spec_(PyStr(<<"N","e","t","w","o","r","k"," ","T","e","c","h","n","o","l","o","g","y">>), PyStr(<<"5","G">>))
MobileNetwork == Spec_(PyStr(<<"M","o","b","i","l","e"," ","n","e","t","w","o","r","k">>), PyStr(<<"3","G">>))

\* the specification groups of a record
SpecGroups ==
    { Group(PyList(<<>>)), Group(PyList(<<Battery>>)),
      Group(PyList(<<Battery, NetworkType>>)),
      Group(PyList(<<MobileNetwork, NetworkType>>)),
      Group(PyList(<<NetworkTechnology>>)) }

\* records with up to MaxNested specification groups
SpecProducts ==
    { [EmptyProduct EXCEPT
          !.id = PyStr(<<"0","1","4">>), !.brand = PyStr(<<"N","o","k","i","a">>),
          !.name = PyStr(<<"H","a","n","d","s","e","t"," ","X">>),
          !.specificationGroups = PyList(groups)] :
        groups \in SeqsUpTo(SpecGroups, MaxNested) }

\* a handset with every nested structure in place
FullProduct ==
    [EmptyProduct EXCEPT
        !.id = PyStr(<<"0","1","5">>), !.brand = PyStr(<<"A","p","p","l","e">>),
        !.name = PyStr(<<"i","P","h","o","n","e"," ","1","5"," ","P","r","o">>), !.code = PyStr(<<"I","P","1","5">>),
        !.specificationGroups = NetworkGroups, !.deviceOptions = BlackOptions]

\* FullProduct with one structure missing: the key absent or the value null
MissingProducts ==
    UNION { { [FullProduct EXCEPT !.code = missing],
              [FullProduct EXCEPT !.deviceOptions = missing],
              [FullProduct EXCEPT !.deviceOptions =
                  PyList(<< Option(PyDict([name |-> PyStr(<<"B","l","a","c","k">>)]), missing) >>)],
              [FullProduct EXCEPT !.deviceOptions =
                  PyList(<< Option(PyDict([name |-> PyStr(<<"B","l","a","c","k">>)]),
                                   PyList(<< Capacity(missing) >>)) >>)],
              [FullProduct EXCEPT !.deviceOptions =
                  PyList(<< Option(missing, PyList(<< Capacity(PyStr(<<"1","2","8","G","B">>)) >>)) >>)],
              [FullProduct EXCEPT !.deviceOptions =
                  PyList(<< Option(PyDict([name |-> missing]),
                                   PyList(<< Capacity(PyStr(<<"1","2","8","G","B">>)) >>)) >>)],
              [FullProduct EXCEPT !.specificationGroups = missing],
              [FullProduct EXCEPT !.specificationGroups = PyList(<< Group(missing) >>)],
              [FullProduct EXCEPT !.specificationGroups =
                  PyList(<< Group(PyList(<< Spec_(missing, PyStr(<<"5","G">>)) >>)) >>)] } :
            missing \in { Absent, PyNone } }

\* the records of the single-record documents
RecordProducts ==
    SampleProducts
    \cup { Insurance, PhoneCase, EmptyId, Galaxy, NullColor, NumericNetwork, EmptyProduct }
    \cup FilterProducts \cup ValidationProducts \cup SkuProducts \cup OptionProducts
    \cup SpecProducts \cup { FullProduct } \cup MissingProducts

\* what can be at self.input_file: nothing, text that is no JSON, a JSON
\* list of records, or a single JSON record
Documents(lists, singles) ==
    { [kind |-> "missing"], [kind |-> "unparsable"] }
    \cup { [kind |-> "json", root |-> PyList(l)] : l \in lists }
    \cup { [kind |-> "json", root |-> PyDict(r)] : r \in singles }

\* config.py: the default of Settings.batch_size
DefaultBatchSize == 1000

\* the decimal digits, and the value of one
DigitChars == <<"0", "1", "2", "3", "4", "5", "6", "7", "8", "9">>
IsDigit(c) == \E k \in 1..Len(DigitChars) : DigitChars[k] = c
DigitValue(c) == (CHOOSE k \in 1..Len(DigitChars) : DigitChars[k] = c) - 1

\* the number a string of digits denotes
RECURSIVE NatOf(_)
NatOf(s) ==
    IF s = <<>> THEN 0
    ELSE 10 * NatOf(SubSeq(s, 1, Len(s) - 1)) + DigitValue(s[Len(s)])

\* a field declared `int`, read from the text of an environment variable:
\* digits, with or without a minus sign in front, and nothing else
ParseInt(s) ==
    LET negative == s # <<>> /\ s[1] = "-"
        body     == IF negative THEN Tail(s) ELSE s
    IN  IF body = <<>> \/ \E k \in 1..Len(body) : ~IsDigit(body[k])
        THEN Err("int_parsing")
        ELSE Ok(IF negative THEN 0 - NatOf(body) ELSE NatOf(body))

\* Settings(): batch_size from BATCH_SIZE, the default when it is not set;
\* the field has no constraint besides its type
Settings_batch_size(env) ==
    IF env.t = "absent" THEN Ok(DefaultBatchSize) ELSE ParseInt(env.v)

\* what BATCH_SIZE can be: not set, numbers up to MaxBatchSize either side of
\* zero, a much larger number and text that is no number
BatchSizeEnv ==
    { Absent, PyStr(<<"i","n","v","a","l","i","d">>), PyStr(<<"5","0","0">>),
      PyStr(<<"-">>), PyStr(<<>>) }
    \cup { PyStr(Digits(n)) : n \in 0..MaxBatchSize }
    \cup { PyStr(<<"-">> \o Digits(n)) : n \in 1..MaxBatchSize }

\* the batch sizes with which the settings object is constructed
AcceptedBatchSizes ==
    { Settings_batch_size(env).val :
        env \in { e \in BatchSizeEnv : Settings_batch_size(e).ok } }

(***************************************************************************)
(* The pipeline as a state machine.  A client constructs a pipeline and    *)
(* then either calls run(), or hands the records of the document to        *)
(* transform() itself, as the unit tests do.                               *)
(***************************************************************************)
NoException == [exc |-> "none", from |-> "none"]
NoRun == [t |-> "absent"]
Exception(exc, from) == [exc |-> exc, from |-> from]

InitWith(documents, batch_sizes) ==
    /\ input_file \in documents
    /\ batch_size \in batch_sizes
    /\ pc = "start"
    /\ call = "none"
    /\ raw_products = <<>>
    /\ batch_num = 0
    /\ pos = 0
    /\ transformed = <<>>
    /\ metrics = InitialMetrics
    /\ output_files = NoFiles
    /\ raised = NoException
    /\ clock = 0
    /\ previous_run = NoRun

\* extract(): how many leading records are sampled for the debug log, and
\* how many of their brands are joined into the message
SampleRecords == 100
SampleSize == 5

Min(a, b) == IF a <= b THEN a ELSE b

\* json.load(f), wrapped in a list when the root is not a list
LoadedData(file) == IF file.root.t = "list" THEN file.root.v ELSE <<file.root.v>>

\* set(p.get('brand', 'Unknown') for p in data[:100])
SampledBrands(data) ==
    { Get(data[k], "brand", PyStr(<<"U","n","k","n","o","w","n">>)) :
        k \in 1..Min(Len(data), SampleRecords) }

\* list(brands)[:5]: any five of them, the order of a set being arbitrary
BrandSamples(data) ==
    { sample \in SUBSET SampledBrands(data) :
        Cardinality(sample) = Min(SampleSize, Cardinality(SampledBrands(data))) }

\* transform() is entered: `total_batches = ... // batch_size` divides by the
\* batch size before the first record is read
EnterTransform ==
    IF batch_size = 0
    THEN [pc |-> "failed", raised |-> Exception("ZeroDivisionError", "transform")]
    ELSE [pc |-> "transform", raised |-> NoException]

\* Extract with run() carrying on after a failed extract(), with no records
ExtractCarryOn ==
    /\ pc = "start"
    /\ call' = "run"
    /\ IF input_file.kind \in {"missing", "unparsable"}
       THEN /\ pc' = "transform"
            /\ raised' = Exception("Exception", "extract")
            /\ UNCHANGED <<raw_products, metrics>>
       ELSE /\ metrics' = [metrics EXCEPT !.total_records = Len(LoadedData(input_file))]
            /\ pc' = EnterTransform.pc
            /\ raised' = EnterTransform.raised
            /\ raw_products' = LoadedData(input_file)
    /\ UNCHANGED <<input_file, batch_size, batch_num, pos, transformed, output_files,
                   clock, previous_run>>

\* run() calls extract()
Extract ==
    /\ pc = "start"
    /\ call' = "run"
    /\ IF input_file.kind = "missing"
       THEN /\ pc' = "failed"
            /\ raised' = Exception("FileNotFoundError", "extract")
            /\ UNCHANGED <<raw_products, metrics>>
       ELSE IF input_file.kind = "unparsable"
       THEN /\ pc' = "failed"
            /\ raised' = Exception("JSONDecodeError", "extract")
            /\ UNCHANGED <<raw_products, metrics>>
       ELSE \E sample \in BrandSamples(LoadedData(input_file)) :
            /\ metrics' = [metrics EXCEPT !.total_records = Len(LoadedData(input_file))]
            /\ IF \E brand \in sample : brand.t # "str"
               THEN \* ', '.join(...) of the debug message raises
                    /\ pc' = "failed"
                    /\ raised' = Exception("TypeError", "extract")
                    /\ UNCHANGED raw_products
               ELSE /\ pc' = EnterTransform.pc
                    /\ raised' = EnterTransform.raised
                    /\ raw_products' = LoadedData(input_file)
    /\ UNCHANGED <<input_file, batch_size, batch_num, pos, transformed, output_files,
                   clock, previous_run>>

\* a client calls transform(raw_products) on the new pipeline
CallTransform ==
    /\ pc = "start"
    /\ input_file.kind = "json"
    /\ call' = "transform"
    /\ pc' = EnterTransform.pc
    /\ raised' = EnterTransform.raised
    /\ raw_products' = LoadedData(input_file)
    /\ UNCHANGED <<input_file, batch_size, batch_num, pos, transformed, metrics,
                   output_files, clock, previous_run>>

\* Python's s[a:b]: a negative index counts from the end, and both are
\* clipped to the sequence
PySlice(s, a, b) ==
    LET clip(i) == IF i < 0 THEN (IF Len(s) + i < 0 THEN 0 ELSE Len(s) + i)
                   ELSE Min(i, Len(s))
    IN  SubSeq(s, clip(a) + 1, clip(b))

\* total_batches rounding down: the last, partial batch is lost
total_batches_floor == Len(raw_products) \div batch_size

\* transform(): the batch arithmetic
total_batches == (Len(raw_products) + batch_size - 1) \div batch_size
start_idx == batch_num * batch_size
end_idx == Min((batch_num + 1) * batch_size, Len(raw_products))
batch == PySlice(raw_products, start_idx, end_idx)

\* TransformRecord without the `except Exception` handler: an exception that
\* is no ValidationError leaves transform()
TransformRecordNoCatch ==
    /\ pc = "transform"
    /\ batch_num < total_batches
    /\ pos < Len(batch)
    /\ \E done \in {ProcessRecord(metrics, transformed, batch[pos + 1])} :
           IF /\ done.metrics.invalid_records = metrics.invalid_records + 1
              /\ done.metrics.validation_errors = metrics.validation_errors
           THEN /\ pc' = "failed"
                /\ raised' = Exception("Exception", "transform")
                /\ UNCHANGED <<metrics, transformed, pos>>
           ELSE /\ metrics' = done.metrics
                /\ transformed' = done.transformed
                /\ pos' = pos + 1
                /\ UNCHANGED <<pc, raised>>
    /\ clock' = clock + 1
    /\ UNCHANGED <<input_file, batch_size, raw_products, batch_num, output_files, call,
                   previous_run>>

\* one iteration of `for raw_product in batch`
TransformRecord ==
    /\ pc = "transform"
    /\ batch_num < total_batches
    /\ pos < Len(batch)
    /\ \E done \in {ProcessRecord(metrics, transformed, batch[pos + 1])} :
           /\ metrics' = done.metrics
           /\ transformed' = done.transformed
    /\ pos' = pos + 1
    /\ clock' = clock + 1
    /\ UNCHANGED <<input_file, batch_size, pc, raw_products, batch_num,
                   output_files, raised, call, previous_run>>

\* the batch is exhausted: the next iteration of `for batch_num in range(...)`
NextBatch ==
    /\ pc = "transform"
    /\ batch_num < total_batches
    /\ pos = Len(batch)
    /\ batch_num' = batch_num + 1
    /\ pos' = 0
    /\ UNCHANGED <<input_file, batch_size, pc, raw_products, transformed, metrics,
                   output_files, raised, call, clock, previous_run>>

\* `return transformed`
TransformReturn ==
    /\ pc = "transform"
    /\ batch_num >= total_batches
    /\ pc' = IF call = "run" THEN "load" ELSE "done"
    /\ UNCHANGED <<input_file, batch_size, raw_products, batch_num, pos, transformed,
                   metrics, output_files, raised, call, clock, previous_run>>

\* run() calls load(transformed_data) and logs the summary, whose success
\* rate divides by total_records
Load ==
    /\ pc = "load"
    /\ output_files' = load(output_files, transformed, metrics)
    /\ IF metrics.total_records = 0
       THEN pc' = "failed" /\ raised' = Exception("ZeroDivisionError", "summary")
       ELSE pc' = "done" /\ raised' = NoException
    /\ UNCHANGED <<input_file, batch_size, raw_products, batch_num, pos, transformed,
                   metrics, call, clock, previous_run>>

Next ==
    \/ Extract
    \/ CallTransform
    \/ TransformRecord
    \/ NextBatch
    \/ TransformReturn
    \/ Load

\* documents of up to MaxRecords sample records
Init ==
    InitWith(Documents(SeqsUpTo(SampleProducts, MaxRecords), {IPhone, Insurance}),
             1..MaxBatchSize)

Spec == Init /\ [][Next]_vars

\* Again with the metrics shared between the two pipeline objects
AgainSharedMetrics ==
    /\ pc = "done"
    /\ call = "transform"
    /\ previous_run = NoRun
    /\ previous_run' = [transformed |-> transformed, metrics |-> metrics,
                        batch_size |-> batch_size]
    /\ batch_size' \in {batch_size, 1}
    /\ pc' = "transform"
    /\ transformed' = <<>>
    /\ batch_num' = 0
    /\ pos' = 0
    /\ UNCHANGED <<input_file, raw_products, output_files, raised, call, clock, metrics>>

\* the client constructs a second pipeline, with the same batch size or with
\* batch size 1, and calls transform() on it with the same raw_products
Again ==
    /\ pc = "done"
    /\ call = "transform"
    /\ previous_run = NoRun
    /\ previous_run' = [transformed |-> transformed, metrics |-> metrics,
                        batch_size |-> batch_size]
    /\ batch_size' \in {batch_size, 1}
    /\ pc' = "transform"
    /\ metrics' = InitialMetrics
    /\ transformed' = <<>>
    /\ batch_num' = 0
    /\ pos' = 0
    /\ UNCHANGED <<input_file, raw_products, output_files, raised, call, clock>>

NextTwice ==
    \/ CallTransform
    \/ TransformRecord
    \/ NextBatch
    \/ TransformReturn
    \/ Again

\* the records of the documents transform() is called on twice: accepted
\* records, a filtered one, one that fails validation and one on which an
\* extractor raises
TwiceProducts == { IPhone, Insurance, Tariff, ManyErrors, NullCode }

InitTwice ==
    InitWith(Documents(SeqsUpTo(TwiceProducts, MaxRecords), {}),
             (1..MaxBatchSize) \cup {DefaultBatchSize})

\* transform() on one pipeline, then on a second one with the same input
SpecTwice == InitTwice /\ [][NextTwice]_vars

\* the records of the documents transform() is called on under any accepted
\* batch size
ConfigProducts == { IPhone, Insurance, ManyErrors }

\* the settings are read from the environment, the pipeline is constructed
InitConfig ==
    InitWith(Documents(SeqsUpTo(ConfigProducts, MaxRecords), {}), AcceptedBatchSizes)

NextConfig ==
    \/ CallTransform
    \/ TransformRecord
    \/ NextBatch
    \/ TransformReturn

\* transform() under every batch size the configuration accepts
SpecConfig == InitConfig /\ [][NextConfig]_vars

\* no operation of the pipeline is in progress
Idle == pc \in {"start", "done"}

\* a client calls extract() on the pipeline, at any time between operations
ClientExtract ==
    /\ Idle
    /\ call' = "extract"
    /\ IF input_file.kind = "missing"
       THEN /\ raised' = Exception("FileNotFoundError", "extract")
            /\ UNCHANGED metrics
       ELSE IF input_file.kind = "unparsable"
       THEN /\ raised' = Exception("JSONDecodeError", "extract")
            /\ UNCHANGED metrics
       ELSE \E sample \in BrandSamples(LoadedData(input_file)) :
            /\ metrics' = [metrics EXCEPT !.total_records = Len(LoadedData(input_file))]
            /\ raised' = IF \E brand \in sample : brand.t # "str"
                         THEN Exception("TypeError", "extract")
                         ELSE NoException
    /\ UNCHANGED <<input_file, batch_size, pc, raw_products, batch_num, pos, transformed,
                   output_files, clock, previous_run>>

\* a client calls transform() with the records of the document, on a new
\* pipeline or on one that has been used: `transformed` starts empty, the
\* metrics are those of the instance
ClientTransform ==
    /\ Idle
    /\ input_file.kind = "json"
    /\ clock + Len(LoadedData(input_file)) <= MaxCalls * Len(LoadedData(input_file))
    /\ call' = "transform"
    /\ pc' = EnterTransform.pc
    /\ raised' = EnterTransform.raised
    /\ raw_products' = LoadedData(input_file)
    /\ transformed' = <<>>
    /\ batch_num' = 0
    /\ pos' = 0
    /\ UNCHANGED <<input_file, batch_size, metrics, output_files, clock, previous_run>>

\* a client calls load() with the list the last transform() returned
ClientLoad ==
    /\ Idle
    /\ call' = "load"
    /\ output_files' = load(output_files, transformed, metrics)
    /\ raised' = NoException
    /\ UNCHANGED <<input_file, batch_size, pc, raw_products, batch_num, pos, transformed,
                   metrics, clock, previous_run>>

NextCalls ==
    \/ ClientExtract
    \/ ClientTransform
    \/ TransformRecord
    \/ NextBatch
    \/ TransformReturn
    \/ ClientLoad

\* the records of the documents the client works on
CallsProducts == { IPhone, Insurance, ManyErrors }

InitCalls ==
    InitWith(Documents(SeqsUpTo(CallsProducts, MaxRecords), {}), {1, DefaultBatchSize})

\* any sequence of extract(), transform() and load() on one pipeline
SpecCalls == InitCalls /\ [][NextCalls]_vars

\* documents of one record, drawn from a wide set, under the default batch size
InitRecord ==
    InitWith(Documents({<<r>> : r \in RecordProducts}, {}), {DefaultBatchSize})

SpecRecord == InitRecord /\ [][Next]_vars

(***************************************************************************)
(* Properties.                                                             *)
(***************************************************************************)
\* the records transform() has been given, by position
Records == 1..Len(raw_products)

\* the number of records the loop of transform() has visited
Visited == Min(start_idx + pos, Len(raw_products))

\* the single record of a one-record document has been through the loop
RecordProcessed == Len(raw_products) = 1 /\ Visited = 1

\* a present value that is a non-empty list
NonEmptyCollection(x) == x.t = "list" /\ Len(x.v) > 0

\* the lowercased name, code, deviceState and productType of a record
\* contain a configured excluded keyword
HasExcludedKeyword(r) ==
    \E keyword \in excluded_categories : Contains(Lower(keyword), search_text(r))

\* ... contain one of the fixed include terms
HasIncludeTerm(r) ==
    \E k \in 1..Len(include_terms) : Contains(include_terms[k], search_text(r))

HasStructuralHint(r) ==
    \/ NonEmptyCollection(r.specificationGroups)
    \/ NonEmptyCollection(r.deviceOptions)

\* C1: a record whose search text contains an excluded keyword is rejected by
\* should_include_product, whatever collections or include terms it has, and
\* transform() counts it as filtered and gives it no output record.
C1_ExclusionWins ==
    /\ \A k \in Records :
          HasExcludedKeyword(raw_products[k]) => ~should_include_product(raw_products[k])
    /\ (RecordProcessed /\ HasExcludedKeyword(raw_products[1]))
          => metrics.filtered_records = 1 /\ transformed = <<>>

\* C1 witness: a record with an excluded keyword, specification groups and an
\* include term has been counted as filtered.
C1_Witness ==
    /\ RecordProcessed
    /\ HasExcludedKeyword(raw_products[1])
    /\ NonEmptyCollection(raw_products[1].specificationGroups)
    /\ HasIncludeTerm(raw_products[1])
    /\ metrics.filtered_records = 1

\* C2: without an excluded keyword, should_include_product accepts a record
\* exactly when it has a non-empty specificationGroups or deviceOptions
\* collection or its search text contains an include term.
C2_AcceptanceRule ==
    /\ \A k \in Records :
          ~HasExcludedKeyword(raw_products[k]) =>
             (should_include_product(raw_products[k])
                <=> (HasStructuralHint(raw_products[k]) \/ HasIncludeTerm(raw_products[k])))
    /\ (RecordProcessed /\ ~HasExcludedKeyword(raw_products[1])) =>
          (metrics.filtered_records = 0
             <=> (HasStructuralHint(raw_products[1]) \/ HasIncludeTerm(raw_products[1])))

\* C2 witness: a record accepted on an include term that is not in its name,
\* having no collection.
C2_Witness ==
    /\ RecordProcessed
    /\ ~HasExcludedKeyword(raw_products[1])
    /\ ~HasStructuralHint(raw_products[1])
    /\ raw_products[1].name.t = "absent"
    /\ HasIncludeTerm(raw_products[1])
    /\ metrics.filtered_records = 0

\* the brand transform() hands to Product
BrandOf(r) == Get(r, "brand", PyStr(<<"U","n","k","n","o","w","n">>))

\* validation of the record fails
ValidationFails(r) == Product(ProductArgs(r, BrandOf(r))).raised

\* extraction from the validated record fails: an extractor raises, or the
\* extracted values do not make a TransformedProduct
ExtractionFails(r) ==
    LET product  == Product(ProductArgs(r, BrandOf(r)))
        category == _determine_category(r)
        network  == _extract_network_technology(r)
        storage  == _extract_storage_options(r)
        color    == _extract_color_options(r)
    IN  \/ category.raised \/ network.raised \/ storage.raised \/ color.raised
        \/ TransformedProduct(TransformedArgs(product.val, category.val, network.val,
                                              storage.val, color.val)).raised

\* the counter a record belongs to: filter first, then validation, then extraction
ClassOf(r) ==
    IF ~should_include_product(r) THEN "filtered"
    ELSE IF ValidationFails(r) THEN "invalid"
    ELSE IF ExtractionFails(r) THEN "invalid"
    ELSE "valid"

CountOf(class) == Cardinality({k \in Records : ClassOf(raw_products[k]) = class})

Counted == metrics.filtered_records + metrics.invalid_records + metrics.valid_records

RunCompleted == call = "run" /\ pc = "done"

\* C3: after run() completes every input record is in exactly one counter,
\* decided in the order filter, validate, extract; the total is the sum of the
\* three counters and valid_records is the length of the output list.
C3_CountersPartition ==
    RunCompleted =>
        /\ metrics.filtered_records = CountOf("filtered")
        /\ metrics.invalid_records = CountOf("invalid")
        /\ metrics.valid_records = CountOf("valid")
        /\ metrics.total_records = Counted
        /\ metrics.total_records = Len(raw_products)
        /\ metrics.valid_records = Len(transformed)

\* C3 witness: a completed run with a filtered record that would also fail
\* validation (it has neither id nor name), an invalid and a valid record.
C3_Witness ==
    /\ RunCompleted
    /\ \E k \in Records :
          ~should_include_product(raw_products[k]) /\ ValidationFails(raw_products[k])
    /\ metrics.filtered_records = 1
    /\ metrics.invalid_records = 1
    /\ metrics.valid_records = 1

\* the guard of one of the three steps of the loop of transform() holds
LoopCanStep ==
    \/ batch_num < total_batches /\ pos < Len(batch)
    \/ batch_num < total_batches /\ pos = Len(batch)
    \/ batch_num = total_batches

\* C4: transform() never raises and never stops early: no exception leaves
\* it, the loop can always take its next step, every visited record is
\* counted, and when it returns all records have been counted.
C4_RecordIsolation ==
    /\ raised.from # "transform"
    /\ pc = "transform" =>
          /\ Counted = Visited
          /\ LoopCanStep
    /\ (pc \in {"load", "done"} \/ raised.from = "summary") =>
          Counted = Len(raw_products)

\* C4 witness: transform() has returned, a record failed validation, another
\* failed in extraction, and a later record is in the output.
C4_Witness ==
    /\ pc = "done"
    /\ Len(raw_products) = 3
    /\ ValidationFails(raw_products[1])
    /\ ClassOf(raw_products[2]) = "invalid" /\ ~ValidationFails(raw_products[2])
    /\ ClassOf(raw_products[3]) = "valid"
    /\ metrics.invalid_records = 2
    /\ Len(transformed) = 1

\* the output record o is the transformed record of the input record r
TransformedFrom(o, r) ==
    /\ o.product_id = r.id
    /\ o.name = PyStr(Strip(r.name.v))
    /\ o.brand = PyStr(Strip(BrandOf(r).v))

\* C5: the output list preserves the order of the input: the output records
\* are the transformed records of valid input records at strictly increasing
\* positions, so no input record yields two output records.
C5_OrderPreserved ==
    \E f \in [1..Len(transformed) -> Records] :
        /\ \A j, k \in 1..Len(transformed) : j < k => f[j] < f[k]
        /\ \A j \in 1..Len(transformed) :
              /\ ClassOf(raw_products[f[j]]) = "valid"
              /\ TransformedFrom(transformed[j], raw_products[f[j]])

\* C5 witness: two different records are in the output, in input order, with
\* a filtered or invalid record between them in the input.
C5_Witness ==
    /\ pc = "done"
    /\ Len(raw_products) = 3
    /\ Len(transformed) = 2
    /\ ClassOf(raw_products[2]) # "valid"
    /\ TransformedFrom(transformed[1], raw_products[1])
    /\ TransformedFrom(transformed[2], raw_products[3])
    /\ transformed[1].product_id # transformed[2].product_id

\* a value that is absent or null
Missing(x) == x.t \in {"absent", "null"}

\* a value that is a string, empty once trimmed
EmptyAfterTrim(x) == x.t = "str" /\ Strip(x.v) = <<>>

\* the fields of Product whose constraint the record violates: id, brand and
\* name must be strings, brand and name non-empty after trimming, the rating
\* in [0, 5] and the review count >= 0
ViolatedFields(r) ==
    {f \in {"id"} : Get(r, "id", PyNone).t # "str"}
    \cup {f \in {"brand"} : BrandOf(r).t # "str" \/ EmptyAfterTrim(BrandOf(r))}
    \cup {f \in {"name"} : Get(r, "name", PyNone).t # "str" \/ EmptyAfterTrim(r.name)}
    \cup {f \in {"average_rating"} :
            r.averageRating.t = "num" /\ (r.averageRating.v < 0 \/ r.averageRating.v > 5)}
    \cup {f \in {"total_reviews"} : r.totalReviews.t = "num" /\ r.totalReviews.v < 0}

CheckedFields == {"id", "brand", "name", "average_rating", "total_reviews"}

\* the fields the errors of an error-detail entry name
ErrorFields(entry) == {entry.errors[k].loc : k \in 1..Len(entry.errors)}

\* C6: a record that violates several constraints gets one error-detail
\* entry, whose error list names every violated field, each once.
C6_AllErrorsListed ==
    (RecordProcessed /\ should_include_product(raw_products[1])
       /\ ViolatedFields(raw_products[1]) # {}) =>
        /\ metrics.invalid_records = 1
        /\ Len(metrics.validation_errors) = 1
        /\ ErrorFields(metrics.validation_errors[1]) \cap CheckedFields
              = ViolatedFields(raw_products[1])
        /\ Len(metrics.validation_errors[1].errors)
              = Cardinality(ErrorFields(metrics.validation_errors[1]))

\* C6 witness: a record without id, without name and with a rating above 5
\* has an entry that lists the three errors.
C6_Witness ==
    /\ RecordProcessed
    /\ Missing(raw_products[1].id)
    /\ Missing(raw_products[1].name)
    /\ raw_products[1].averageRating = PyNum(6)
    /\ Len(metrics.validation_errors) = 1
    /\ {"id", "name", "average_rating"} \subseteq ErrorFields(metrics.validation_errors[1])

\* C7 as claimed: validation fails whenever id, brand or name is missing or
\* empty (brand and name after trimming), and no output record has an empty
\* id, brand or name.
C7_IdentityRequired ==
    /\ (RecordProcessed /\ should_include_product(raw_products[1])
          /\ \/ Missing(raw_products[1].id) \/ raw_products[1].id = PyStr(<<>>)
             \/ Missing(raw_products[1].brand) \/ EmptyAfterTrim(raw_products[1].brand)
             \/ Missing(raw_products[1].name) \/ EmptyAfterTrim(raw_products[1].name))
        => metrics.invalid_records = 1 /\ transformed = <<>>
    /\ \A k \in 1..Len(transformed) :
          /\ transformed[k].product_id # PyStr(<<>>)
          /\ transformed[k].brand # PyStr(<<>>)
          /\ transformed[k].name # PyStr(<<>>)

\* C8: a rating is accepted unchanged exactly when it is in [0, 5] and a
\* review count exactly when it is >= 0; outside, validation fails on that
\* field; an absent or null rating or review count causes no error.
C8_RangeChecks ==
    (RecordProcessed /\ should_include_product(raw_products[1])) =>
        LET rating  == Get(raw_products[1], "averageRating", PyNone)
            reviews == Get(raw_products[1], "totalReviews", PyNone)
            errors  == UNION {ErrorFields(metrics.validation_errors[k]) :
                                 k \in 1..Len(metrics.validation_errors)}
        IN  /\ "average_rating" \in errors
                  <=> (rating.t = "num" /\ ~(0 <= rating.v /\ rating.v <= 5))
            /\ "total_reviews" \in errors
                  <=> (reviews.t = "num" /\ ~(reviews.v >= 0))
            /\ (rating.t = "num" /\ ~(0 <= rating.v /\ rating.v <= 5))
                  => metrics.invalid_records = 1
            /\ (reviews.t = "num" /\ ~(reviews.v >= 0))
                  => metrics.invalid_records = 1
            /\ \A k \in 1..Len(transformed) :
                  transformed[k].rating = rating /\ transformed[k].review_count = reviews

\* C8 witness: a record with rating 5 and review count 0 is in the output
\* with these values.
C8_Witness ==
    /\ RecordProcessed
    /\ raw_products[1].averageRating = PyNum(5)
    /\ raw_products[1].totalReviews = PyNum(0)
    /\ Len(transformed) = 1
    /\ transformed[1].rating = PyNum(5)
    /\ transformed[1].review_count = PyNum(0)

\* a value that is a non-empty string
NonEmptyStr(x) == x.t = "str" /\ Len(x.v) > 0

\* C9: the sku of an output record is the skuCode if present and non-empty,
\* else the code if present and non-empty, else brand "_" id of the
\* validated record; it is never empty.
C9_SkuResolution ==
    (RecordProcessed /\ Len(transformed) = 1) =>
        /\ transformed[1].sku =
              IF NonEmptyStr(raw_products[1].skuCode) THEN raw_products[1].skuCode
              ELSE IF NonEmptyStr(raw_products[1].code) THEN raw_products[1].code
              ELSE PyStr(transformed[1].brand.v \o <<"_">> \o transformed[1].product_id.v)
        /\ NonEmptyStr(transformed[1].sku)

\* C9 witness: a record with an empty skuCode and no code gets the sku built
\* from the trimmed brand and the id.
C9_Witness ==
    /\ RecordProcessed
    /\ raw_products[1].skuCode = PyStr(<<>>)
    /\ raw_products[1].code.t = "absent"
    /\ raw_products[1].brand = PyStr(<<" ","G","o","o","g","l","e"," ">>)
    /\ Len(transformed) = 1
    /\ transformed[1].sku = PyStr(<<"G","o","o","g","l","e","_","0","1","2">>)

\* the lowercased text of a name or code that is a string or absent
LowText(x) == IF x.t = "str" THEN Lower(x.v) ELSE <<>>

HasHandsetTerm(text) ==
    \/ Contains(<<"i","p","h","o","n","e">>, text)
    \/ Contains(<<"g","a","l","a","x","y">>, text)
    \/ Contains(<<"p","i","x","e","l">>, text)
    \/ Contains(<<"m","o","t","o">>, text)

\* the category the rule gives a record
CategoryRule(r) ==
    IF HasHandsetTerm(LowText(r.name)) \/ HasHandsetTerm(LowText(r.code))
    THEN <<"h","a","n","d","s","e","t">>
    ELSE IF \/ Contains(<<"t","a","r","i","f","f">>, LowText(r.name))
            \/ Contains(<<"p","l","a","n">>, LowText(r.name))
    THEN <<"p","a","y","_","m","o","n","t","h","l","y">>
    ELSE <<"d","e","v","i","c","e">>

\* C10: for a record whose name and code are strings or absent,
\* _determine_category returns handset on a handset term in the name or the
\* code, else pay_monthly on tariff or plan in the name, else device; every
\* output record has the category of this rule, one of the three values.
C10_CategoryRule ==
    /\ \A k \in Records :
          (raw_products[k].name.t \in {"str", "absent"}
             /\ raw_products[k].code.t \in {"str", "absent"}) =>
                _determine_category(raw_products[k]) = Return(CategoryRule(raw_products[k]))
    /\ (RecordProcessed /\ Len(transformed) = 1) =>
          /\ transformed[1].category = PyStr(CategoryRule(raw_products[1]))
          /\ transformed[1].category \in {PyStr(handset), PyStr(pay_monthly), PyStr(device)}
          /\ metrics.categories_found = {CategoryRule(raw_products[1])}

\* C10 witness: a name with a handset term and "plan" is in the output as a
\* handset.
C10_Witness ==
    /\ RecordProcessed
    /\ Contains(<<"g","a","l","a","x","y">>, LowText(raw_products[1].name))
    /\ Contains(<<"p","l","a","n">>, LowText(raw_products[1].name))
    /\ Len(transformed) = 1
    /\ transformed[1].category = PyStr(handset)

\* the elements of a JSON list; nothing for a value that is no list
Items(x) == IF x.t = "list" THEN {x.v[k] : k \in 1..Len(x.v)} ELSE {}

\* the value under a key of a JSON object; absent for a value that is no object
Field(x, key) == IF x.t = "dict" THEN x.v[key] ELSE Absent

\* the capacity-value names of all device options of a record
CapacityNames(r) ==
    { Field(cap, "name") :
        cap \in UNION { Items(Field(opt, "capacityValues")) : opt \in Items(r.deviceOptions) } }

\* the colour names of all device options of a record
ColorNames(r) == { Field(Field(opt, "color"), "name") : opt \in Items(r.deviceOptions) }

\* the list is the strictly ascending list of the non-empty names among the values
AscendingListOf(list, values) ==
    /\ {list[k] : k \in 1..Len(list)} = {x \in values : NonEmptyStr(x)}
    /\ \A k \in 1..(Len(list) - 1) : StrLess(list[k].v, list[k + 1].v)

\* C11: the storage options extracted from a record are exactly the non-empty
\* capacity-value names of all its device options and the colour options
\* exactly the non-empty colour names, each list strictly ascending; an output
\* record carries these lists.
C11_OptionLists ==
    /\ \A k \in Records :
          /\ ~_extract_storage_options(raw_products[k]).raised =>
                AscendingListOf(_extract_storage_options(raw_products[k]).val,
                                CapacityNames(raw_products[k]))
          /\ ~_extract_color_options(raw_products[k]).raised =>
                AscendingListOf(_extract_color_options(raw_products[k]).val,
                                ColorNames(raw_products[k]))
    /\ (RecordProcessed /\ Len(transformed) = 1) =>
          /\ AscendingListOf(transformed[1].storage_options.v, CapacityNames(raw_products[1]))
          /\ AscendingListOf(transformed[1].color_options.v, ColorNames(raw_products[1]))

\* C11 witness: two device options given as Blue before Black, with a repeated
\* and an empty capacity name, are in the output as three sorted storage
\* options and two sorted colours.
C11_Witness ==
    /\ RecordProcessed
    /\ Cardinality(Items(raw_products[1].deviceOptions)) = 2
    /\ Len(raw_products[1].deviceOptions.v) = 2
    /\ Field(Field(raw_products[1].deviceOptions.v[1], "color"), "name") = PyStr(<<"B","l","u","e">>)
    /\ PyStr(<<>>) \in CapacityNames(raw_products[1])
    /\ Len(transformed) = 1
    /\ transformed[1].storage_options
          = PyList(<<PyStr(<<"1","2","8","G","B">>), PyStr(<<"1","T","B">>), PyStr(<<"2","5","6","G","B">>)>>)
    /\ transformed[1].color_options
          = PyList(<<PyStr(<<"B","l","a","c","k">>), PyStr(<<"B","l","u","e">>)>>)

\* the specifications of a record by place: <<g, s>> is specification s of
\* group g
SpecPlaces(r) ==
    UNION { { <<g, s>> :
                s \in 1..Len(Field(r.specificationGroups.v[g], "specifications").v) } :
            g \in { g \in 1..Len(r.specificationGroups.v) :
                      Field(r.specificationGroups.v[g], "specifications").t = "list" } }

SpecAt(r, place) == Field(r.specificationGroups.v[place[1]], "specifications").v[place[2]]

\* the places whose specification has a name that contains "network",
\* whatever the case
NetworkPlaces(r) ==
    { place \in SpecPlaces(r) :
        /\ Field(SpecAt(r, place), "name").t = "str"
        /\ Contains(<<"n","e","t","w","o","r","k">>, Lower(Field(SpecAt(r, place), "name").v)) }

\* place p comes before place q in the scan
Before(p, q) == p[1] < q[1] \/ (p[1] = q[1] /\ p[2] < q[2])

\* the value the rule gives: that of the first matching place, or None
NetworkRule(r) ==
    IF NetworkPlaces(r) = {} THEN PyNone
    ELSE LET first == CHOOSE p \in NetworkPlaces(r) :
                         \A q \in NetworkPlaces(r) \ {p} : Before(p, q)
         IN  IF Field(SpecAt(r, first), "value").t = "absent" THEN PyNone
             ELSE Field(SpecAt(r, first), "value")

\* C12: _extract_network_technology returns the value of the first
\* specification, in group order and then specification order, whose name
\* contains "network" in any case, and None when there is none, whenever it
\* returns; an output record carries that value.
C12_FirstNetwork ==
    /\ \A k \in Records :
          (raw_products[k].specificationGroups.t = "list"
             /\ ~_extract_network_technology(raw_products[k]).raised) =>
                _extract_network_technology(raw_products[k])
                   = Return(NetworkRule(raw_products[k]))
    /\ (RecordProcessed /\ Len(transformed) = 1
          /\ raw_products[1].specificationGroups.t = "list") =>
             transformed[1].network_technology = NetworkRule(raw_products[1])

\* C12 witness: the first specification does not match, the second is
\* "NETWORK Type", a later group matches too, and the output has the value
\* of "NETWORK Type".
C12_Witness ==
    /\ RecordProcessed
    /\ raw_products[1].specificationGroups.t = "list"
    /\ <<1, 1>> \in SpecPlaces(raw_products[1]) \ NetworkPlaces(raw_products[1])
    /\ <<1, 2>> \in NetworkPlaces(raw_products[1])
    /\ <<2, 1>> \in NetworkPlaces(raw_products[1])
    /\ Field(SpecAt(raw_products[1], <<2, 1>>), "value") = PyStr(<<"5","G">>)
    /\ Len(transformed) = 1
    /\ transformed[1].network_technology = PyStr(<<"4","G">>)

\* the groups, specifications, device options and capacity values of a record
GroupsOf(r) == Items(r.specificationGroups)
SpecsOf(r) == UNION { Items(Field(group, "specifications")) : group \in GroupsOf(r) }
OptionsOf(r) == Items(r.deviceOptions)
CapacitiesOf(r) == UNION { Items(Field(opt, "capacityValues")) : opt \in OptionsOf(r) }

\* a nested structure of the record is missing: its key is absent or its
\* value is null
MissingStructure(r) ==
    \/ Missing(r.code)
    \/ Missing(r.deviceOptions)
    \/ Missing(r.specificationGroups)
    \/ \E opt \in OptionsOf(r) :
          \/ Missing(Field(opt, "capacityValues"))
          \/ Missing(Field(opt, "color"))
          \/ Missing(Field(Field(opt, "color"), "name"))
    \/ \E cap \in CapacitiesOf(r) : Missing(Field(cap, "name"))
    \/ \E group \in GroupsOf(r) : Missing(Field(group, "specifications"))
    \/ \E spec \in SpecsOf(r) : Missing(Field(spec, "name"))

\* no extractor raises on the record
ExtractorsReturn(r) ==
    /\ ~_determine_category(r).raised
    /\ ~_extract_network_technology(r).raised
    /\ ~_extract_storage_options(r).raised
    /\ ~_extract_color_options(r).raised

\* C13 as claimed: on a record with a missing nested structure (key absent
\* or value null) every extractor returns, a missing collection yielding an
\* empty list or None, and a record that passed the filter and validation is
\* not counted as invalid because an extractor raised.
C13_MissingIsEmpty ==
    /\ \A k \in Records :
          MissingStructure(raw_products[k]) =>
             /\ ExtractorsReturn(raw_products[k])
             /\ Missing(raw_products[k].deviceOptions) =>
                   /\ _extract_storage_options(raw_products[k]) = Return(<<>>)
                   /\ _extract_color_options(raw_products[k]) = Return(<<>>)
             /\ Missing(raw_products[k].specificationGroups) =>
                   _extract_network_technology(raw_products[k]) = Return(PyNone)
    /\ (RecordProcessed /\ MissingStructure(raw_products[1])
          /\ should_include_product(raw_products[1])
          /\ ~ValidationFails(raw_products[1])
          /\ metrics.invalid_records = 1) => ExtractorsReturn(raw_products[1])

\* load() has been called and has returned
Loaded == (pc = "done" /\ call = "run") \/ raised.from = "summary"

\* the header row of products.csv
CsvHeader ==
    <<"product_id", "brand", "name", "category", "sku", "in_stock", "device_state",
      "rating", "review_count", "network_technology", "storage_options",
      "color_options", "processed_timestamp">>

\* C14: load() called with no accepted record does not fail and writes
\* products.json as an empty list, products.csv as the header row alone and
\* a validation report whose four counts are those of the metrics.
C14_EmptyLoad ==
    /\ raised.from # "load"
    /\ (Loaded /\ transformed = <<>>) =>
          /\ output_files.products_json = PyList(<<>>)
          /\ output_files.products_csv = [header |-> CsvHeader, rows |-> <<>>]
          /\ output_files.validation_report # NotWritten
          /\ output_files.validation_report.total_records = metrics.total_records
          /\ output_files.validation_report.valid_records = metrics.valid_records
          /\ output_files.validation_report.invalid_records = metrics.invalid_records
          /\ output_files.validation_report.filtered_records = metrics.filtered_records

\* C14 witness: load() has written the report of a run in which one record
\* was filtered, one was invalid and none was accepted.
C14_Witness ==
    /\ Loaded
    /\ transformed = <<>>
    /\ output_files.products_csv = [header |-> CsvHeader, rows |-> <<>>]
    /\ output_files.validation_report # NotWritten
    /\ output_files.validation_report.total_records = 2
    /\ output_files.validation_report.filtered_records = 1
    /\ output_files.validation_report.invalid_records = 1

\* C15 as claimed: load() writes validation_errors.json exactly when the
\* metrics hold an error-detail entry, whether or not a record was accepted.
C15_ErrorsFileIffErrors ==
    Loaded =>
        (output_files.validation_errors # NotWritten
           <=> metrics.validation_errors # <<>>)

\* the text of an optional value in a CSV cell: empty for None
CellOf(x) == IF x.t = "null" THEN PyStr(<<>>) ELSE x

\* row is the CSV row of the output record o
CsvRowOf(row, o) ==
    /\ row.product_id = o.product_id
    /\ row.brand = o.brand
    /\ row.name = o.name
    /\ row.category = o.category
    /\ row.sku = o.sku
    /\ row.in_stock = IF o.in_stock.v THEN PyStr(<<"Y","e","s">>) ELSE PyStr(<<"N","o">>)
    /\ row.device_state = CellOf(o.device_state)
    /\ row.rating = CellOf(o.rating)
    /\ row.review_count = CellOf(o.review_count)
    /\ row.network_technology = CellOf(o.network_technology)
    /\ row.storage_options
          = PyStr(Join(<<"|">>, [k \in 1..Len(o.storage_options.v) |-> o.storage_options.v[k].v]))
    /\ row.color_options
          = PyStr(Join(<<"|">>, [k \in 1..Len(o.color_options.v) |-> o.color_options.v[k].v]))
    /\ row.processed_timestamp = o.processed_timestamp

\* C16: products.csv has the 13 columns in their fixed order and one row per
\* accepted record, in the order of products.json; lists are joined by "|",
\* in_stock is Yes or No, an absent optional value is empty and a present
\* value, 0 included, is written as it is.
C16_CsvRows ==
    (Loaded /\ transformed # <<>>) =>
        /\ output_files.products_json = PyList(transformed)
        /\ output_files.products_csv.header = CsvHeader
        /\ DOMAIN output_files.products_csv.rows = DOMAIN output_files.products_json.v
        /\ \A k \in DOMAIN output_files.products_csv.rows :
              /\ DOMAIN output_files.products_csv.rows[k]
                    = {CsvHeader[c] : c \in 1..Len(CsvHeader)}
              /\ CsvRowOf(output_files.products_csv.rows[k], output_files.products_json.v[k])

\* C16 witness: a file of two rows, one with two storage options joined by
\* "|", in stock and with empty review count, one with review count 0, not
\* in stock and with empty option lists.
C16_Witness ==
    /\ Loaded
    /\ Len(output_files.products_csv.rows) = 2
    /\ output_files.products_csv.rows[1].storage_options
          = PyStr(<<"1","2","8","G","B","|","2","5","6","G","B">>)
    /\ output_files.products_csv.rows[1].in_stock = PyStr(<<"Y","e","s">>)
    /\ output_files.products_csv.rows[1].review_count = PyStr(<<>>)
    /\ output_files.products_csv.rows[2].review_count = PyNum(0)
    /\ output_files.products_csv.rows[2].in_stock = PyStr(<<"N","o">>)
    /\ output_files.products_csv.rows[2].storage_options = PyStr(<<>>)
    /\ output_files.products_csv.rows[2].device_state = PyStr(<<>>)

\* C17: the success rate of a written report is valid_records /
\* total_records x 100 when total_records > 0 and 0 when total_records = 0;
\* it is always defined.
C17_SuccessRate ==
    Loaded =>
        /\ output_files.validation_report.success_rate.den # 0
        /\ output_files.validation_report.total_records > 0 =>
              output_files.validation_report.success_rate.num
                    * output_files.validation_report.total_records
                 = output_files.validation_report.valid_records * 100
                    * output_files.validation_report.success_rate.den
        /\ output_files.validation_report.total_records = 0 =>
              output_files.validation_report.success_rate.num = 0

\* C17 witness: the report of an empty document has the success rate 0.
C17_Witness ==
    /\ Loaded
    /\ raw_products = <<>>
    /\ output_files.validation_report.total_records = 0
    /\ output_files.validation_report.success_rate.num = 0
    /\ output_files.validation_report.success_rate.den # 0

\* the output list without the processing times
Untimed(products) ==
    [k \in DOMAIN products |-> [products[k] EXCEPT !.processed_timestamp = PyNone]]

\* the metrics without the times of the error-detail entries
UntimedMetrics(m) ==
    [m EXCEPT !.validation_errors =
        [k \in DOMAIN m.validation_errors |->
            [m.validation_errors[k] EXCEPT !.timestamp = PyNone]]]

\* transform() has returned on the second pipeline
SecondRunDone == pc = "done" /\ previous_run # NoRun

\* C18: transform() with any batch size gives, apart from the timestamps, the
\* output list, the counters, the error-detail list and the brand and
\* category sets that batch size 1 gives on the same input, and counts every
\* record once.
C18_BatchingHasNoEffect ==
    (SecondRunDone /\ batch_size = 1) =>
        /\ Untimed(previous_run.transformed) = Untimed(transformed)
        /\ UntimedMetrics(previous_run.metrics) = UntimedMetrics(metrics)
        /\ Counted = Len(raw_products)
        /\ previous_run.metrics.filtered_records + previous_run.metrics.invalid_records
              + previous_run.metrics.valid_records = Len(raw_products)

\* C18 witness: three records went through transform() in batches of two and
\* then one by one, with an accepted and an invalid record among them.
C18_Witness ==
    /\ SecondRunDone
    /\ batch_size = 1
    /\ previous_run.batch_size = 2
    /\ Len(raw_products) = 3
    /\ Len(transformed) >= 1
    /\ Len(metrics.validation_errors) >= 1
    /\ Untimed(previous_run.transformed) = Untimed(transformed)

\* C19 as claimed: two runs of transform() on the same input, on pipelines of
\* the same configuration, give the same output apart from
\* processed_timestamp and identical metrics, and leave the input as it was.
C19_IdenticalMetrics ==
    (SecondRunDone /\ batch_size = previous_run.batch_size) =>
        /\ Untimed(previous_run.transformed) = Untimed(transformed)
        /\ previous_run.metrics = metrics
        /\ raw_products = LoadedData(input_file)

\* C19 amended: ... give the same output apart from processed_timestamp and
\* the same metrics apart from the timestamp of each error-detail entry, and
\* leave the input as it was.
C19_SameApartFromTimes ==
    (SecondRunDone /\ batch_size = previous_run.batch_size) =>
        /\ Untimed(previous_run.transformed) = Untimed(transformed)
        /\ UntimedMetrics(previous_run.metrics) = UntimedMetrics(metrics)
        /\ raw_products = LoadedData(input_file)

\* C19 witness: the second run has the output and the error entries of the
\* first, at later times.
C19_Witness ==
    /\ SecondRunDone
    /\ batch_size = previous_run.batch_size
    /\ Len(transformed) >= 1
    /\ Len(metrics.validation_errors) >= 1
    /\ transformed # previous_run.transformed
    /\ metrics.validation_errors # previous_run.metrics.validation_errors
    /\ Untimed(previous_run.transformed) = Untimed(transformed)
    /\ UntimedMetrics(previous_run.metrics) = UntimedMetrics(metrics)

\* C20 as claimed: the metrics are empty on a new pipeline, and extract() and
\* load() leave every metric as it is.
C20_OnlyTransformMutates ==
    /\ [](pc = "start" => metrics = InitialMetrics)
    /\ [][(Extract \/ Load) => metrics' = metrics]_vars

\* the value is a string with nothing in it but whitespace
Blank(x) == x.t = "str" /\ Strip(x.v) = <<>>

\* the errors of an error-detail entry that clean_text raised
CleanTextErrors(entry) ==
    {entry.errors[k].loc : k \in {j \in 1..Len(entry.errors) : entry.errors[j].type = "value_error"}}

\* C21: an output record carries the brand and the name of its input record
\* with leading and trailing whitespace removed; a record that passed the
\* filter with a brand or name that is empty or only whitespace is counted
\* invalid, with clean_text's error in its entry, and gives no output record.
C21_TrimmedText ==
    RecordProcessed =>
        LET r == raw_products[1]
        IN  /\ Len(transformed) = 1 =>
                  /\ HasKey(r, "brand") =>
                        /\ r.brand.t = "str"
                        /\ transformed[1].brand = PyStr(Strip(r.brand.v))
                  /\ r.name.t = "str"
                  /\ transformed[1].name = PyStr(Strip(r.name.v))
            /\ (metrics.filtered_records = 0 /\ (Blank(r.brand) \/ Blank(r.name))) =>
                  /\ transformed = <<>>
                  /\ metrics.invalid_records = 1
                  /\ Len(metrics.validation_errors) = 1
                  /\ CleanTextErrors(metrics.validation_errors[1])
                        = {f \in {"brand", "name"} : Blank(r[f])}

\* C21 witness: a record whose brand and name have whitespace on both sides
\* is in the output, trimmed.
C21_Witness ==
    /\ RecordProcessed
    /\ raw_products[1].brand = PyStr(<<" ","A","p","p","l","e"," ">>)
    /\ raw_products[1].name = PyStr(<<" ","i","P","h","o","n","e"," ","1","5"," ">>)
    /\ Len(transformed) = 1
    /\ transformed[1].brand = PyStr(<<"A","p","p","l","e">>)
    /\ transformed[1].name = PyStr(<<"i","P","h","o","n","e"," ","1","5">>)

\* the conditions under which run() may end with an exception
FatalCondition == input_file.kind \in {"missing", "unparsable"}

\* C22 as claimed: run() raises only when the input file is missing or is no
\* JSON; a record whose brand is null or no string makes neither extract nor
\* run raise, and every record of its document is counted by transform.
C22_OnlyFatalAborts ==
    call = "run" =>
        /\ raised # NoException => FatalCondition
        /\ (input_file.kind = "json"
              /\ \E k \in 1..Len(LoadedData(input_file)) :
                    LoadedData(input_file)[k].brand.t \notin {"str", "absent"}) =>
              /\ pc # "failed"
              /\ pc = "done" => Counted = Len(LoadedData(input_file))

\* run() was called on a parsable document with no record and has ended
EmptyRunEnded ==
    /\ call = "run"
    /\ input_file.kind = "json"
    /\ Len(LoadedData(input_file)) = 0
    /\ pc \in {"done", "failed"}

\* C23 as claimed: run() on an empty list of records returns with status
\* 'success', having written the empty JSON list, the header-only CSV and a
\* report with total_records = 0 and success rate 0; it does not raise.
C23_EmptyRunSucceeds ==
    EmptyRunEnded =>
        /\ pc = "done"
        /\ raised = NoException
        /\ output_files.products_json = PyList(<<>>)
        /\ output_files.products_csv = [header |-> CsvHeader, rows |-> <<>>]
        /\ output_files.validation_report # NotWritten
        /\ output_files.validation_report.total_records = 0
        /\ output_files.validation_report.success_rate = [num |-> 0, den |-> 1]

\* transform() has returned
TransformReturned == pc \in {"load", "done"} \/ raised.from = "summary"

\* the brands and the categories of the records in the output list
OutputBrands == {transformed[k].brand : k \in 1..Len(transformed)}
OutputCategories == {transformed[k].category.v : k \in 1..Len(transformed)}

\* C24 as claimed: after transform the set of brands is the set of the brands
\* of the output records and the set of categories is the set of their
\* categories; filtered and invalid records contribute nothing.
C24_SetsOfOutput ==
    TransformReturned =>
        /\ metrics.brands_processed = OutputBrands
        /\ metrics.categories_found = OutputCategories

\* C25 as claimed: every record counted invalid has one error-detail entry,
\* whatever made it fail, so after transform there are as many entries in
\* validation_errors as invalid_records counts.
C25_EntryPerInvalid ==
    TransformReturned => Len(metrics.validation_errors) = metrics.invalid_records

\* C26 as claimed: the configuration accepts only positive batch sizes, and
\* under an accepted batch size transform does not raise and, once it has
\* returned, has counted every input record once.
C26_PositiveBatchSize ==
    /\ batch_size > 0
    /\ raised.from # "transform"
    /\ (pc = "done" /\ call = "transform") => Counted = Len(raw_products)

\* the phases of run() in the order of its body: a phase is entered from the
\* one before it, or run() ends with the exception the phase raised
RunOrder ==
    { <<"start", "transform">>, <<"transform", "load">>, <<"load", "done">>,
      <<"start", "failed">>, <<"load", "failed">> }

\* C27: run() goes through extract, transform and load in this order and
\* through each at most once; when extract raises, run() ends there: nothing
\* more is executed, no output file is written and the valid, invalid and
\* filtered counters are 0.
C27_RunOrder ==
    /\ [][(call' = "run" /\ pc' # pc) => <<pc, pc'>> \in RunOrder]_vars
    /\ [][raised.from # "extract"]_vars
    /\ [](raised.from = "extract" =>
            /\ pc = "failed"
            /\ output_files = NoFiles
            /\ transformed = <<>>
            /\ metrics.valid_records = 0
            /\ metrics.invalid_records = 0
            /\ metrics.filtered_records = 0)

\* C27 witness: the input file is missing and run() has ended with the
\* FileNotFoundError of extract, nothing written and nothing counted.
C27_Witness ==
    /\ call = "run"
    /\ input_file.kind = "missing"
    /\ raised = Exception("FileNotFoundError", "extract")
    /\ pc = "failed"
    /\ output_files = NoFiles
    /\ Counted = 0

\* C28 as claimed: whatever the sequence of calls to extract, transform and
\* load on one pipeline, a validation report that load has written has
\* total_records = valid_records + invalid_records + filtered_records and a
\* success rate between 0 and 100.
C28_ReportConsistent ==
    output_files.validation_report # NotWritten =>
        LET report == output_files.validation_report
        IN  /\ report.total_records
                  = report.valid_records + report.invalid_records + report.filtered_records
            /\ 0 <= report.success_rate.num
            /\ report.success_rate.num <= 100 * report.success_rate.den

====
